---- MODULE Spec2Model ----
(***************************************************************************)
(* Payment transaction safety of the SSC collection backend (Code.gs):     *)
(* the validators, the script lock with retry, and handleRecordPayment,    *)
(* run by concurrent request handlers over the Payments and Students       *)
(* sheets (Spec); the amount validators on their own (SpecAmount), the     *)
(* eligibility check on its own (SpecEligibility), concurrent handleLogin  *)
(* requests (SpecLogin), repeated setupDatabase runs (SpecSetup),          *)
(* concurrent initializeDatabase calls (SpecInitDb), the system receipt    *)
(* numbers of committed payments (SpecReceipt), the retry loop of the      *)
(* browser's ApiManager against handleRecordPayment (SpecClient) and       *)
(* concurrent handlePrintSummary calls (SpecPrint).                        *)
(*                                                                         *)
(* Time is counted in ticks of 12 hours, so that a calendar day is two     *)
(* ticks and the 24 hour idempotency retention is two ticks.  A sheet row  *)
(* is a tuple; Col(row, k) is the code's row[k] (0-based).                 *)
(***************************************************************************)
EXTENDS Integers, Sequences, FiniteSets, TLC

\* ---------------------------------------------------------------- bounds
NumProcs == 2
MaxRequests == 2
MaxTime == 3
RandRange == 2
AmountProbe == 20
MaxLogins == 3
MaxRuns == 3
MaxInits == 3
MaxCommits == 3
MaxPrints == 3

\* ------------------------------------------------------- CONFIG (Code.gs)
PAYMENT_AMOUNT_MIN == 5
PAYMENT_AMOUNT_MULTIPLE == 5
MAX_PAYMENT_AMOUNT == 10000
IDEMPOTENCY_RETENTION_HOURS == 24
LockMaxAttempts_Four == 3 + 1
LockMaxAttempts == 3
defaultExpectedAmount == 85

Procs == 1..NumProcs
HoursPerDay == 2 * 12
RetentionTicks == IDEMPOTENCY_RETENTION_HOURS \div 12
RECEIPT_NUMBER_PREFIX == "R-"
maxAttempts == 100
PRINT_LOCK_TIMEOUT_SECONDS == 60
retryAttempts == 3
TicksPerDay == HoursPerDay \div 12

\* --------------------------------------------------------- JS cell values
\* Cells of the Students sheet carry their JavaScript type, because the code
\* reads them through ||, parseFloat and truthiness tests.
Str(s) == [t |-> "str", s |-> s, n |-> 0]
Num(n) == [t |-> "num", s |-> "", n |-> n]
DateCell(n) == [t |-> "date", s |-> "", n |-> n]
NaN == [t |-> "nan", s |-> "", n |-> 0]

Truthy(c) ==
  CASE c.t = "str" -> c.s # ""
    [] c.t = "num" -> c.n # 0
    [] c.t = "date" -> TRUE
    [] OTHER -> FALSE

\* c || 0
OrZero(c) == IF Truthy(c) THEN c ELSE Num(0)

\* parseFloat: a number stays, a non-numeric string or a date gives NaN
ParseFloat(c) == IF c.t = "num" THEN c ELSE NaN

\* a > b on numbers, false as soon as one side is NaN
NumGt(a, b) == a.t = "num" /\ b.t = "num" /\ a.n > b.n

Col(row, k) == row[k + 1]

\* ------------------------------------------------------------- strings
\* String.prototype.trim and toUpperCase on the receipt numbers in use
Trim(s) ==
  CASE s = " r1 " -> "r1"
    [] s = " R1 " -> "R1"
    [] OTHER -> s

ToUpperCase(s) ==
  CASE s = "r1" -> "R1"
    [] s = " r1 " -> " R1 "
    [] OTHER -> s

\* new Date(s) of a string that is no date: the Invalid Date
BadDate == -2

\* Date.prototype.toDateString: the calendar day of an instant, and one
\* string ("Invalid Date") for the Invalid Date
ToDateString(t) == IF t = BadDate THEN -1 ELSE t \div TicksPerDay

\* ------------------------------------------------------------ the inputs
NoKey == [kind |-> "none", n |-> 0]
Uuid(n) == [kind |-> "uuid", n |-> n]
NoDate == -1
AdminSession == [user |-> "admin", role |-> "Admin", section |-> "All"]
TreasurerSession == [user |-> "t1", role |-> "Treasurer", section |-> "SEC1"]
\* the session validateSession finds for the token of a client: the odd
\* workers serve the admin, the even ones the treasurer of SEC1
SessionOf(p) == IF p % 2 = 1 THEN AdminSession ELSE TreasurerSession

Payload(studentId, amount, physicalReceiptNo, idempotencyKey, paymentDate) ==
  [studentId |-> studentId, amount |-> amount, physicalReceiptNo |-> physicalReceiptNo,
   idempotencyKey |-> idempotencyKey, paymentDate |-> paymentDate]

K1 == [kind |-> "client", n |-> 1]

\* the requests the clients send: a payment, its retry, requests that share
\* its receipt number, its day, its key or nothing with it, a request with a
\* payment date that is no date, and requests that miss a required field
Payloads ==
  { Payload("ST1", 50, "R1", K1, 2),
    Payload("ST1", 40, " r1 ", NoKey, NoDate),
    Payload("ST1", 40, "R2", NoKey, 2),
    Payload("ST1", 40, "R2", NoKey, NoDate),
    Payload("ST1", 50, "R2", K1, NoDate),
    Payload("ST2", 50, "R2", NoKey, NoDate),
    Payload("ST2", 40, "R1", K1, NoDate),
    Payload("ST2", 40, "R2", NoKey, BadDate),
    Payload("", 50, "R2", NoKey, NoDate),
    Payload("ST1", 0, "R2", NoKey, NoDate),
    Payload("ST1", 50, "", NoKey, NoDate) }

NoPayment == <<>>
NoReq ==
  [studentId |-> "", amount |-> 0, physicalReceiptNo |-> "",
   idempotencyKey |-> NoKey, paymentDate |-> NoDate]
NoResp == [status |-> "none", msg |-> "", paymentId |-> NoPayment, duplicate |-> FALSE]
NoElig == [valid |-> FALSE, msg |-> "", sectionId |-> "", totalPaid |-> 0, newTotal |-> 0]

VARIABLES
  Payments,   \* rows of the Payments sheet
  Students,   \* rows of the Students sheet
  AuditLog,   \* record ids of the PAYMENT_RECORD rows of the AuditLog sheet
  lock,       \* holder of the script lock, 0 when free
  now,        \* the clock
  reqCount,   \* requests received so far
  pc, req, session, attempt, sleeps, elig, newId, resp,
  \* the amount validators applied to one amount
  amountArg, serverResult, clientResult,
  \* handleLogin: the Sessions sheet and the login requests in progress
  Sessions, loginPc, loginUser, loginRows, loginCount,
  \* setupDatabase: header rows, Departments and Treasurers sheets, runs
  Headers, Departments, Treasurers, setupRuns,
  \* initializeDatabase: the script properties and the calls in progress
  Properties, initPc, initData, initMissing, initResp, initCount,
  \* the committed payments with the system receipt numbers returned for them
  Receipts, commitCount,
  \* ApiManager.call in the browser: position, payload, attempt, requests
  \* sent, last error caught, result returned, redirect to the login page
  clientPc, callPayload, attemptNo, sent, lastError, callResult, redirected,
  \* handlePrintSummary: the PrintJobs sheet and the calls in progress
  PrintJobs, printPc, printArg, printResp, printCount

recordVars == <<Payments, Students, AuditLog, lock, now, reqCount,
                pc, req, session, attempt, sleeps, elig, newId, resp>>
amountVars == <<amountArg, serverResult, clientResult>>
loginVars == <<Sessions, loginPc, loginUser, loginRows, loginCount>>
setupVars == <<Headers, Departments, Treasurers, setupRuns>>
initVars == <<Properties, initPc, initData, initMissing, initResp, initCount>>
receiptVars == <<Receipts, commitCount>>
clientVars == <<clientPc, callPayload, attemptNo, sent, lastError, callResult, redirected>>
printVars == <<PrintJobs, printPc, printArg, printResp, printCount>>
extraVars == <<initVars, receiptVars, clientVars, printVars>>

\* what handleRecordPayment leaves alone
otherVars == <<amountVars, loginVars, setupVars, extraVars>>

vars == <<recordVars, amountVars, loginVars, setupVars, extraVars>>

\* --------------------------------------------------------------- helpers
\* getDataRows(sheet, 2, numCols): the data rows of a sheet, in sheet order
getDataRows(sheet) == sheet

\* the first of the rows a scan would stop at, 0 when it runs to the end
FirstMatch(hits) ==
  IF hits = {} THEN 0 ELSE CHOOSE i \in hits : \A j \in hits : i <= j

\* the running total of a student: the amounts of the non-voided rows
RECURSIVE TotalPaid(_, _)
TotalPaid(rows, studentId) ==
  IF rows = <<>> THEN 0
  ELSE (IF Col(Head(rows), 1) = studentId /\ ~Col(Head(rows), 10)
        THEN Col(Head(rows), 3) ELSE 0) + TotalPaid(Tail(rows), studentId)

\* ------------------------------------------------------------ validators
validatePaymentAmount(amount) ==
  IF amount = 0 THEN [valid |-> FALSE, msg |-> "Amount must be a valid number"]
  ELSE IF amount <= 0 THEN [valid |-> FALSE, msg |-> "Amount must be greater than zero"]
  ELSE IF amount < PAYMENT_AMOUNT_MIN THEN [valid |-> FALSE, msg |-> "Minimum amount"]
  ELSE IF amount > MAX_PAYMENT_AMOUNT THEN [valid |-> FALSE, msg |-> "Maximum amount"]
  ELSE IF amount % PAYMENT_AMOUNT_MULTIPLE # 0 THEN [valid |-> FALSE, msg |-> "Amount must be a multiple"]
  ELSE [valid |-> TRUE, msg |-> "Valid amount"]

\* the receipt scan counting the voided payments too
validateUniqueReceiptNumber_CountsVoided(payRows, receiptNo, excludePaymentId) ==
  IF receiptNo = "" \/ Trim(receiptNo) = ""
  THEN [valid |-> FALSE, msg |-> "Physical receipt number is required", paymentId |-> NoPayment]
  ELSE
    LET cleanReceiptNo == ToUpperCase(Trim(receiptNo))
        Hit(row) == ToUpperCase(Trim(Col(row, 7))) = cleanReceiptNo
        i == FirstMatch({n \in 1..Len(payRows) : Hit(payRows[n])})
    IN IF i # 0
       THEN [valid |-> FALSE, msg |-> "Receipt number already used in payment", paymentId |-> Col(payRows[i], 0)]
       ELSE [valid |-> TRUE, msg |-> "Receipt number is unique", paymentId |-> NoPayment]

validateUniqueReceiptNumber(payRows, receiptNo, excludePaymentId) ==
  IF receiptNo = "" \/ Trim(receiptNo) = ""
  THEN [valid |-> FALSE, msg |-> "Physical receipt number is required", paymentId |-> NoPayment]
  ELSE
    LET cleanReceiptNo == ToUpperCase(Trim(receiptNo))
        Hit(row) == /\ ~(Col(row, 10) \/ (excludePaymentId # NoPayment /\ Col(row, 0) = excludePaymentId))
                    /\ ToUpperCase(Trim(Col(row, 7))) = cleanReceiptNo
        i == FirstMatch({n \in 1..Len(payRows) : Hit(payRows[n])})
    IN IF i # 0
       THEN [valid |-> FALSE, msg |-> "Receipt number already used in payment", paymentId |-> Col(payRows[i], 0)]
       ELSE [valid |-> TRUE, msg |-> "Receipt number is unique", paymentId |-> NoPayment]

\* the key scan reading the ReceiptUrl column instead of IdempotencyKey
validateIdempotencyKey_WrongColumn(payRows, idempotencyKey, clock) ==
  IF idempotencyKey = NoKey
  THEN [valid |-> FALSE, msg |-> "Idempotency key is required", existingPaymentId |-> NoPayment]
  ELSE
    LET cutoffTime == clock - RetentionTicks
        Hit(row) == ~Col(row, 10) /\ Col(row, 6) > cutoffTime /\ Col(row, 8) = "K1"
        i == FirstMatch({n \in 1..Len(payRows) : Hit(payRows[n])})
    IN IF i # 0
       THEN [valid |-> FALSE, msg |-> "Duplicate request detected", existingPaymentId |-> Col(payRows[i], 0)]
       ELSE [valid |-> TRUE, msg |-> "Idempotency key is unique", existingPaymentId |-> NoPayment]

validateIdempotencyKey(payRows, idempotencyKey, clock) ==
  IF idempotencyKey = NoKey
  THEN [valid |-> FALSE, msg |-> "Idempotency key is required", existingPaymentId |-> NoPayment]
  ELSE
    LET cutoffTime == clock - RetentionTicks
        Hit(row) == ~Col(row, 10) /\ Col(row, 6) > cutoffTime /\ Col(row, 9) = idempotencyKey
        i == FirstMatch({n \in 1..Len(payRows) : Hit(payRows[n])})
    IN IF i # 0
       THEN [valid |-> FALSE, msg |-> "Duplicate request detected", existingPaymentId |-> Col(payRows[i], 0)]
       ELSE [valid |-> TRUE, msg |-> "Idempotency key is unique", existingPaymentId |-> NoPayment]

\* the columns of a Students row that the eligibility check reads
ExpectedAmountCol == 4
IsActiveCol == 5

\* the eligibility check without the section authorization of treasurers
validateStudentPaymentEligibility_NoSection(stuRows, payRows, studentId, amount, sess) ==
  LET i == FirstMatch({n \in 1..Len(stuRows) : Col(stuRows[n], 0).s = studentId})
  IN IF i = 0 THEN [NoElig EXCEPT !.msg = "Student not found"]
     ELSE
       LET student == [sectionId |-> Col(stuRows[i], 3).s,
                       expectedAmount |-> OrZero(Col(stuRows[i], ExpectedAmountCol)),
                       isActive |-> Col(stuRows[i], IsActiveCol)]
           totalPaid == TotalPaid(payRows, studentId)
           newTotal == totalPaid + amount
           expectedAmount == ParseFloat(student.expectedAmount)
       IN IF ~Truthy(student.isActive) THEN [NoElig EXCEPT !.msg = "Student is inactive"]
          ELSE IF NumGt(expectedAmount, Num(0)) /\ NumGt(Num(newTotal), expectedAmount)
            THEN [NoElig EXCEPT !.msg = "Payment would exceed expected amount"]
          ELSE [valid |-> TRUE, msg |-> "Student eligible for payment",
                sectionId |-> student.sectionId, totalPaid |-> totalPaid, newTotal |-> newTotal]

validateStudentPaymentEligibility(stuRows, payRows, studentId, amount, sess) ==
  LET i == FirstMatch({n \in 1..Len(stuRows) : Col(stuRows[n], 0).s = studentId})
  IN IF i = 0 THEN [NoElig EXCEPT !.msg = "Student not found"]
     ELSE
       LET student == [sectionId |-> Col(stuRows[i], 3).s,
                       expectedAmount |-> OrZero(Col(stuRows[i], ExpectedAmountCol)),
                       isActive |-> Col(stuRows[i], IsActiveCol)]
           totalPaid == TotalPaid(payRows, studentId)
           newTotal == totalPaid + amount
           expectedAmount == ParseFloat(student.expectedAmount)
       IN IF ~Truthy(student.isActive) THEN [NoElig EXCEPT !.msg = "Student is inactive"]
          ELSE IF sess.role = "Treasurer" /\ student.sectionId # sess.section
            THEN [NoElig EXCEPT !.msg = "Student not in your section"]
          ELSE IF NumGt(expectedAmount, Num(0)) /\ NumGt(Num(newTotal), expectedAmount)
            THEN [NoElig EXCEPT !.msg = "Payment would exceed expected amount"]
          ELSE [valid |-> TRUE, msg |-> "Student eligible for payment",
                sectionId |-> student.sectionId, totalPaid |-> totalPaid, newTotal |-> newTotal]

\* the Students row handleCreateSection appends
StudentRow(studentId, studentNo, fullName, newSectionId, createdAt) ==
  <<Str(studentId), Str(studentNo), Str(fullName), Str(newSectionId),
    Str("Active"), DateCell(createdAt), Num(defaultExpectedAmount)>>

\* the Payments row handleRecordPayment appends
PaymentRow(paymentId, r, sectionId, user, createdAt) ==
  <<paymentId, r.studentId, sectionId, r.amount, r.paymentDate, user, createdAt,
    r.physicalReceiptNo, "", r.idempotencyKey, FALSE, "", "">>

\* a Students row whose Status and ExpectedAmount cells hold other values
\* than the ones handleCreateSection writes
StudentRowOf(studentId, sectionId, status, expectedAmount) ==
  [StudentRow(studentId, "STU1", "Ana", sectionId, 0)
     EXCEPT ![5] = Str(status), ![7] = Num(expectedAmount)]

\* ----------------------------------------------------- the other sheets
\* hashValue: the base64 SHA-256 digest, empty for an empty value
hashValue(value) ==
  IF value = "" THEN [alg |-> "", of |-> ""] ELSE [alg |-> "sha256", of |-> value]

\* String.prototype.toLowerCase on the user names in use
ToLowerCase(s) ==
  CASE s = "Admin" -> "admin"
    [] s = "ADMIN" -> "admin"
    [] OTHER -> s

\* the row setupDatabase appends for the default admin
DefaultAdminRow(clock) ==
  <<[prefix |-> "T", n |-> clock], "System Admin", "admin", hashValue("ssc2025"),
    "Admin", "All", "All", TRUE, clock, clock, NoDate>>

\* the row handleCreateTreasurer appends
TreasurerRow(treasurerId, fullName, username, password, department, section, clock) ==
  <<treasurerId, fullName, username, hashValue(password),
    "Treasurer", department, section, TRUE, clock, clock, NoDate>>

\* the rows setupDatabase seeds the Departments sheet with
SeedDepartments == << <<1, "ICT">>, <<2, "HTM">>, <<3, "SHS">> >>

\* the sheets setupDatabase ensures (three of the twelve) and their headers
SheetNames == {"Departments", "Treasurers", "Payments"}

sheetsToCreate(name) ==
  CASE name = "Departments" -> <<"DepartmentID", "DepartmentName">>
    [] name = "Students" ->
         <<"StudentID", "StudentNo", "FullName", "SectionID", "Status", "CreatedAt",
           "ExpectedAmount">>
    [] name = "Treasurers" ->
         <<"TreasurerID", "FullName", "Username", "PasswordHash", "Role", "Department",
           "Section", "IsActive", "CreatedAt", "StartDate", "EndDate">>
    [] name = "Payments" ->
         <<"PaymentID", "StudentID", "SectionID", "Amount", "PaymentDate", "EnteredBy",
           "CreatedAt", "PhysicalReceiptNo", "ReceiptUrl", "IdempotencyKey", "IsVoided",
           "CollectionDayID">>

\* a sheet as setupDatabase sees it: whether it exists, and its first row
SheetWith(row) == [exists |-> TRUE, row |-> row]
NoSheet == [exists |-> FALSE, row |-> <<>>]

\* SESSION_TIMEOUT_HOURS (8 hours) in ticks, rounded up
SessionTimeoutTicks == 1

\* the Sessions row handleLogin appends
SessionRow(token, username, role, department, section, clock) ==
  <<token, username, role, department, section, clock, clock + SessionTimeoutTicks, clock, TRUE>>

NoVerdict == [valid |-> FALSE, msg |-> ""]

\* the values of the variables of the handlers that are not running
AmountIdle == amountArg = 0 /\ serverResult = NoVerdict /\ clientResult = NoVerdict

LoginIdle ==
  /\ Sessions = << SessionRow(Uuid(1), "admin", "Admin", "All", "All", 0),
                   SessionRow(Uuid(2), "t1", "Treasurer", "ICT", "SEC1", 0) >>
  /\ loginPc = [p \in Procs |-> "idle"]
  /\ loginUser = [p \in Procs |-> ""]
  /\ loginRows = [p \in Procs |-> {}]
  /\ loginCount = 0

SetupIdle ==
  /\ Headers = [name \in SheetNames |-> SheetWith(sheetsToCreate(name))]
  /\ Departments = SeedDepartments
  /\ Treasurers = << DefaultAdminRow(0),
                     TreasurerRow([prefix |-> "T", n |-> 1], "Tess", "t1", "pw1", "ICT", "SEC1", 0) >>
  /\ setupRuns = 0

\* the script properties after initializeDatabase, and before it
InitializedProperties(clock, adminUsername) ==
  [DB_INITIALIZED |-> "true", INIT_DATE |-> clock, INIT_ADMIN |-> adminUsername]
NoProperties == [DB_INITIALIZED |-> "null", INIT_DATE |-> NoDate, INIT_ADMIN |-> ""]

NoInitData == [adminName |-> "", adminUsername |-> "", adminPassword |-> ""]
NoInitResp == [status |-> "none", message |-> ""]

InitDbIdle ==
  /\ Properties = NoProperties
  /\ initPc = [p \in Procs |-> "idle"]
  /\ initData = [p \in Procs |-> NoInitData]
  /\ initMissing = [p \in Procs |-> {}]
  /\ initResp = [p \in Procs |-> NoInitResp]
  /\ initCount = 0

ReceiptIdle == Receipts = <<>> /\ commitCount = 0

ClientIdle ==
  /\ clientPc = "idle"
  /\ callPayload = [data |-> NoReq, token |-> NoKey]
  /\ attemptNo = 0
  /\ sent = 0
  /\ lastError = ""
  /\ callResult = NoResp
  /\ redirected = FALSE

NoPrintArg == [sectionId |-> "", jobId |-> <<>>, printRows |-> <<>>, now |-> 0, user |-> ""]
NoPrintResp == [status |-> "none", msg |-> "", jobId |-> <<>>]

PrintIdle ==
  /\ PrintJobs = <<>>
  /\ printPc = [p \in Procs |-> "idle"]
  /\ printArg = [p \in Procs |-> NoPrintArg]
  /\ printResp = [p \in Procs |-> NoPrintResp]
  /\ printCount = 0

ExtraIdle == InitDbIdle /\ ReceiptIdle /\ ClientIdle /\ PrintIdle

\* ------------------------------------------------------------------ Init
\* the state recordPayment starts from: the sheets set up, two sections with
\* one student each, no payment yet
RecordInit ==
  /\ Payments = <<>>
  /\ Students = << StudentRow("ST1", "STU1", "Ana", "SEC1", 0),
                   StudentRow("ST2", "STU2", "Ben", "SEC2", 0) >>
  /\ AuditLog = <<>>
  /\ lock = 0
  /\ now = 0
  /\ reqCount = 0
  /\ pc = [p \in Procs |-> "idle"]
  /\ req = [p \in Procs |-> NoReq]
  /\ session = [p \in Procs |-> SessionOf(p)]
  /\ attempt = [p \in Procs |-> 0]
  /\ sleeps = [p \in Procs |-> <<>>]
  /\ elig = [p \in Procs |-> NoElig]
  /\ newId = [p \in Procs |-> NoPayment]
  /\ resp = [p \in Procs |-> NoResp]

Init == RecordInit /\ AmountIdle /\ LoginIdle /\ SetupIdle /\ ExtraIdle

createSuccessResponse(paymentId, msg, duplicate) ==
  [status |-> "ok", msg |-> msg, paymentId |-> paymentId, duplicate |-> duplicate]

createErrorResponse(msg, paymentId) ==
  [status |-> "error", msg |-> msg, paymentId |-> paymentId, duplicate |-> FALSE]

\* the handler returns: the response is set; the request stays on record with
\* its response until the worker takes the next one
Return(p, response) ==
  /\ pc' = [pc EXCEPT ![p] = "done"]
  /\ resp' = [resp EXCEPT ![p] = response]
  /\ req' = req
  /\ elig' = [elig EXCEPT ![p] = NoElig]
  /\ newId' = [newId EXCEPT ![p] = NoPayment]

\* an exit path that returns without releasing
releaseLock_Skip(p) == lock' = lock

\* lock.releaseLock()
releaseLock(p) == lock' = IF lock = p THEN 0 ELSE lock

InLock(p) == pc[p] \in {"elig", "recheck", "commit", "log"}

\* the handler moves on to its next step
Goto(p, label) ==
  /\ pc' = [pc EXCEPT ![p] = label]
  /\ UNCHANGED resp

\* ---------------------------------------------------- handleRecordPayment
\* the entry without step 1: a request goes on to the key check whatever
\* fields it carries, unless its amount fails step 2
Receive_NoInputCheck(p) ==
  /\ pc[p] \in {"idle", "done"}
  /\ reqCount < MaxRequests
  /\ \E payload \in Payloads :
       LET r == [studentId |-> payload.studentId,
                 amount |-> payload.amount,
                 physicalReceiptNo |-> Trim(payload.physicalReceiptNo),
                 idempotencyKey |-> IF payload.idempotencyKey = NoKey
                                    THEN Uuid(reqCount + 1) ELSE payload.idempotencyKey,
                 paymentDate |-> IF payload.paymentDate = NoDate
                                 THEN now ELSE payload.paymentDate]
           amountValidation == validatePaymentAmount(r.amount)
       IN /\ req' = [req EXCEPT ![p] = r]
          /\ UNCHANGED <<elig, newId>>
          /\ IF ~amountValidation.valid
             THEN /\ pc' = [pc EXCEPT ![p] = "done"]
                  /\ resp' = [resp EXCEPT ![p] = createErrorResponse(amountValidation.msg, NoPayment)]
             ELSE /\ pc' = [pc EXCEPT ![p] = "preIdem"]
                  /\ resp' = [resp EXCEPT ![p] = NoResp]
  /\ session' = [session EXCEPT ![p] = SessionOf(p)]
  /\ attempt' = [attempt EXCEPT ![p] = 0]
  /\ sleeps' = [sleeps EXCEPT ![p] = <<>>]
  /\ reqCount' = reqCount + 1
  /\ UNCHANGED <<Payments, Students, AuditLog, lock, now>>
  /\ UNCHANGED otherVars

\* entry: the payload is parsed, then steps 1 and 2 (required fields, amount)
Enter(p, payload, sess) ==
  /\ LET r == [studentId |-> payload.studentId,
               amount |-> payload.amount,
               physicalReceiptNo |-> Trim(payload.physicalReceiptNo),
               idempotencyKey |-> IF payload.idempotencyKey = NoKey
                                  THEN Uuid(reqCount + 1) ELSE payload.idempotencyKey,
               paymentDate |-> IF payload.paymentDate = NoDate
                               THEN now ELSE payload.paymentDate]
         amountValidation == validatePaymentAmount(r.amount)
     IN /\ req' = [req EXCEPT ![p] = r]
        /\ UNCHANGED <<elig, newId>>
        /\ IF r.studentId = "" \/ r.amount = 0 \/ r.physicalReceiptNo = ""
           THEN /\ pc' = [pc EXCEPT ![p] = "done"]
                /\ resp' = [resp EXCEPT ![p] = createErrorResponse(
                              "studentId, amount, and physicalReceiptNo are required", NoPayment)]
           ELSE IF ~amountValidation.valid
           THEN /\ pc' = [pc EXCEPT ![p] = "done"]
                /\ resp' = [resp EXCEPT ![p] = createErrorResponse(amountValidation.msg, NoPayment)]
           ELSE /\ pc' = [pc EXCEPT ![p] = "preIdem"]
                /\ resp' = [resp EXCEPT ![p] = NoResp]
  /\ session' = [session EXCEPT ![p] = sess]
  /\ attempt' = [attempt EXCEPT ![p] = 0]
  /\ sleeps' = [sleeps EXCEPT ![p] = <<>>]
  /\ reqCount' = reqCount + 1
  /\ UNCHANGED <<Payments, Students, AuditLog, lock, now>>

\* a worker takes the next request, of a client with a valid session
Receive(p) ==
  /\ pc[p] \in {"idle", "done"}
  /\ reqCount < MaxRequests
  /\ \E payload \in Payloads : Enter(p, payload, SessionOf(p))
  /\ UNCHANGED otherVars

\* step 3 taking a key match for a duplicate only when the student matches too
PreIdem_SameStudentOnly(p) ==
  /\ pc[p] = "preIdem"
  /\ LET payRows == getDataRows(Payments)
         v == validateIdempotencyKey(payRows, req[p].idempotencyKey, now)
         sameStudent == \E n \in 1..Len(payRows) :
                          /\ Col(payRows[n], 0) = v.existingPaymentId
                          /\ Col(payRows[n], 1) = req[p].studentId
     IN IF ~v.valid /\ (v.existingPaymentId = NoPayment \/ sameStudent)
        THEN IF v.existingPaymentId # NoPayment
             THEN Return(p, createSuccessResponse(v.existingPaymentId, "payment already recorded", TRUE))
             ELSE Return(p, createErrorResponse(v.msg, NoPayment))
        ELSE /\ Goto(p, "preReceipt")
             /\ UNCHANGED <<req, elig, newId>>
  /\ UNCHANGED <<Payments, Students, AuditLog, lock, now, reqCount, session, attempt, sleeps>>
  /\ UNCHANGED otherVars

\* step 3: idempotency key validation before the lock
PreIdem(p) ==
  /\ pc[p] = "preIdem"
  /\ LET v == validateIdempotencyKey(getDataRows(Payments), req[p].idempotencyKey, now)
     IN IF ~v.valid
        THEN IF v.existingPaymentId # NoPayment
             THEN Return(p, createSuccessResponse(v.existingPaymentId, "payment already recorded", TRUE))
             ELSE Return(p, createErrorResponse(v.msg, NoPayment))
        ELSE /\ Goto(p, "preReceipt")
             /\ UNCHANGED <<req, elig, newId>>
  /\ UNCHANGED <<Payments, Students, AuditLog, lock, now, reqCount, session, attempt, sleeps>>
  /\ UNCHANGED otherVars

\* step 4: physical receipt number validation before the lock
PreReceipt(p) ==
  /\ pc[p] = "preReceipt"
  /\ LET v == validateUniqueReceiptNumber(getDataRows(Payments), req[p].physicalReceiptNo, NoPayment)
     IN IF ~v.valid
        THEN Return(p, createErrorResponse(v.msg, v.paymentId))
        ELSE /\ Goto(p, "acquire")
             /\ UNCHANGED <<req, elig, newId>>
  /\ UNCHANGED <<Payments, Students, AuditLog, lock, now, reqCount, session, attempt, sleeps>>
  /\ UNCHANGED otherVars

\* the handler entering its critical section without waiting for the lock
AcquireLock_NoWait(p) ==
  /\ pc[p] = "acquire"
  /\ lock' = p
  /\ Goto(p, "elig")
  /\ attempt' = [attempt EXCEPT ![p] = 0]
  /\ sleeps' = [sleeps EXCEPT ![p] = <<>>]
  /\ UNCHANGED <<Payments, Students, AuditLog, now, reqCount, req, session, elig, newId>>
  /\ UNCHANGED otherVars

\* step 5, acquireLockWithRetry: waitLock obtains the script lock
AcquireLock(p) ==
  /\ pc[p] = "acquire"
  /\ lock = 0
  /\ lock' = p
  /\ Goto(p, "elig")
  /\ attempt' = [attempt EXCEPT ![p] = 0]
  /\ sleeps' = [sleeps EXCEPT ![p] = <<>>]
  /\ UNCHANGED <<Payments, Students, AuditLog, now, reqCount, req, session, elig, newId>>
  /\ UNCHANGED otherVars

\* step 5, acquireLockWithRetry: waitLock times out while the lock is held;
\* the last attempt returns null and the handler answers busy
LockTimeout(p) ==
  /\ pc[p] = "acquire"
  /\ lock # 0
  /\ attempt' = [attempt EXCEPT ![p] = attempt[p] + 1]
  /\ IF attempt[p] = LockMaxAttempts - 1
     THEN /\ Return(p, createErrorResponse("System is busy", NoPayment))
          /\ sleeps' = sleeps
     ELSE /\ sleeps' = [sleeps EXCEPT ![p] = Append(sleeps[p], 100 * (attempt[p] + 1))]
          /\ UNCHANGED <<pc, resp, req, elig, newId>>
  /\ UNCHANGED <<Payments, Students, AuditLog, lock, now, reqCount, session>>
  /\ UNCHANGED otherVars

\* step 6: student eligibility inside the lock
Eligibility(p) ==
  /\ pc[p] = "elig"
  /\ LET v == validateStudentPaymentEligibility(getDataRows(Students), getDataRows(Payments),
                                                req[p].studentId, req[p].amount, session[p])
     IN IF ~v.valid
        THEN /\ releaseLock(p)
             /\ Return(p, createErrorResponse(v.msg, NoPayment))
        ELSE /\ elig' = [elig EXCEPT ![p] = v]
             /\ Goto(p, "recheck")
             /\ UNCHANGED <<lock, req, newId>>
  /\ UNCHANGED <<Payments, Students, AuditLog, now, reqCount, session, attempt, sleeps>>
  /\ UNCHANGED otherVars

\* the handler without the key re-check inside the lock
InLockKeyMatch_Off(payRows, idempotencyKey) == 0

\* step 7: the row the idempotency key re-check inside the lock stops at
InLockKeyMatch(payRows, idempotencyKey) ==
  FirstMatch({n \in 1..Len(payRows) : Col(payRows[n], 9) = idempotencyKey})

\* the handler without the receipt re-check inside the lock
InLockReceiptMatch_Off(payRows, physicalReceiptNo) == 0

\* step 7: the row the receipt number re-check inside the lock stops at
InLockReceiptMatch(payRows, physicalReceiptNo) ==
  FirstMatch({n \in 1..Len(payRows) :
    /\ ~Col(payRows[n], 10)
    /\ ToUpperCase(Trim(Col(payRows[n], 7))) = ToUpperCase(physicalReceiptNo)})

\* the same-day check comparing the instants instead of the calendar days
SameDayMatch_Instant(payRows, studentId, paymentDate) ==
  FirstMatch({n \in 1..Len(payRows) :
    /\ Col(payRows[n], 1) = studentId
    /\ ~Col(payRows[n], 10)
    /\ Col(payRows[n], 4) = paymentDate})

\* step 8: the row the same-day check stops at
SameDayMatch(payRows, studentId, paymentDate) ==
  FirstMatch({n \in 1..Len(payRows) :
    /\ Col(payRows[n], 1) = studentId
    /\ ~Col(payRows[n], 10)
    /\ ToDateString(Col(payRows[n], 4)) = ToDateString(paymentDate)})

\* steps 7 and 8: the checks on one read of the Payments rows inside the lock
Recheck(p) ==
  /\ pc[p] = "recheck"
  /\ LET payRows == getDataRows(Payments)
         j == InLockKeyMatch(payRows, req[p].idempotencyKey)
         k == InLockReceiptMatch(payRows, req[p].physicalReceiptNo)
         l == SameDayMatch(payRows, req[p].studentId, req[p].paymentDate)
     IN IF j # 0
        THEN /\ releaseLock(p)
             /\ Return(p, createSuccessResponse(Col(payRows[j], 0),
                                                "payment already recorded (detected in lock)", TRUE))
        ELSE IF k # 0
        THEN /\ releaseLock(p)
             /\ Return(p, createErrorResponse("Receipt number already used in payment",
                                              Col(payRows[k], 0)))
        ELSE IF l # 0
        THEN /\ releaseLock(p)
             /\ Return(p, createErrorResponse("A payment for this student has already been recorded today",
                                              NoPayment))
        ELSE /\ Goto(p, "commit")
             /\ UNCHANGED <<lock, req, elig, newId>>
  /\ UNCHANGED <<Payments, Students, AuditLog, now, reqCount, session, attempt, sleeps>>
  /\ UNCHANGED otherVars

\* steps 9 and 10 with the lock released right after the append, before the
\* audit entry
Commit_ReleaseEarly(p) ==
  /\ pc[p] = "commit"
  /\ \E rnd \in 0..(RandRange - 1) :
       LET paymentId == <<now, rnd>>
       IN /\ newId' = [newId EXCEPT ![p] = paymentId]
          /\ Payments' = Append(Payments,
               PaymentRow(paymentId, req[p], elig[p].sectionId, session[p].user, now))
  /\ Goto(p, "log")
  /\ releaseLock(p)
  /\ UNCHANGED <<Students, AuditLog, now, reqCount, req, session, attempt, sleeps, elig>>
  /\ UNCHANGED otherVars

\* steps 9 and 10: the payment id is generated and the row appended.  The id
\* is "P" + seconds + random; its second component stands for the second
\* within the tick together with the random suffix.
Commit(p) ==
  /\ pc[p] = "commit"
  /\ \E rnd \in 0..(RandRange - 1) :
       LET paymentId == <<now, rnd>>
       IN /\ newId' = [newId EXCEPT ![p] = paymentId]
          /\ Payments' = Append(Payments,
               PaymentRow(paymentId, req[p], elig[p].sectionId, session[p].user, now))
  /\ Goto(p, "log")
  /\ UNCHANGED <<Students, AuditLog, lock, now, reqCount, req, session, attempt, sleeps, elig>>
  /\ UNCHANGED otherVars

\* step 10 fails: appendRow throws and nothing is written
AppendFail(p) ==
  /\ pc[p] = "commit"
  /\ releaseLock(p)
  /\ Return(p, createErrorResponse("Failed to save payment record", NoPayment))
  /\ UNCHANGED <<Payments, Students, AuditLog, now, reqCount, session, attempt, sleeps>>
  /\ UNCHANGED otherVars

\* step 11 with a logAction that lets the failure of the audit sheet escape
\* to the catch of the append
LogRelease_Propagate(p) ==
  /\ pc[p] = "log"
  /\ IF req[p].paymentDate = BadDate
     THEN /\ AuditLog' = AuditLog
          /\ releaseLock(p)
          /\ Return(p, createErrorResponse("Failed to save payment record", NoPayment))
     ELSE \/ /\ AuditLog' = Append(AuditLog, newId[p])
             /\ releaseLock(p)
             /\ Return(p, createSuccessResponse(newId[p], "Payment recorded successfully", FALSE))
          \/ /\ AuditLog' = AuditLog
             /\ releaseLock(p)
             /\ Return(p, createErrorResponse("Failed to save payment record", NoPayment))
  /\ UNCHANGED <<Payments, Students, now, reqCount, session, attempt, sleeps>>
  /\ UNCHANGED otherVars

\* step 11, after the append and inside its try block: the arguments of
\* logAction are built (paymentDate.toISOString() throws a RangeError for the
\* Invalid Date, which the catch of the append answers), then logAction
\* (which swallows its own failure), release, response
LogRelease(p) ==
  /\ pc[p] = "log"
  /\ IF req[p].paymentDate = BadDate
     THEN /\ AuditLog' = AuditLog
          /\ releaseLock(p)
          /\ Return(p, createErrorResponse("Failed to save payment record", NoPayment))
     ELSE /\ \/ AuditLog' = Append(AuditLog, newId[p])
             \/ AuditLog' = AuditLog
          /\ releaseLock(p)
          /\ Return(p, createSuccessResponse(newId[p], "Payment recorded successfully", FALSE))
  /\ UNCHANGED <<Payments, Students, now, reqCount, session, attempt, sleeps>>
  /\ UNCHANGED otherVars

\* a sheet call inside the outer try throws: the outer catch releases the lock
Fault(p) ==
  /\ pc[p] \in {"elig", "recheck", "commit"}
  /\ releaseLock(p)
  /\ Return(p, createErrorResponse("Unexpected error occurred", NoPayment))
  /\ UNCHANGED <<Payments, Students, AuditLog, now, reqCount, session, attempt, sleeps>>
  /\ UNCHANGED otherVars

\* ----------------------------------------------------------- environment
Tick ==
  /\ now < MaxTime
  /\ now' = now + 1
  /\ UNCHANGED <<Payments, Students, AuditLog, lock, reqCount,
                 pc, req, session, attempt, sleeps, elig, newId, resp>>
  /\ UNCHANGED otherVars

\* the void operation: sets the IsVoided flag of one payment
VoidPayment(i) ==
  /\ i \in 1..Len(Payments)
  /\ ~Col(Payments[i], 10)
  /\ Payments' = [Payments EXCEPT ![i] = [Payments[i] EXCEPT ![11] = TRUE]]
  /\ UNCHANGED <<Students, AuditLog, lock, now, reqCount,
                 pc, req, session, attempt, sleeps, elig, newId, resp>>
  /\ UNCHANGED otherVars

Next ==
  \/ \E p \in Procs : Receive(p)
  \/ \E p \in Procs : PreIdem(p)
  \/ \E p \in Procs : PreReceipt(p)
  \/ \E p \in Procs : AcquireLock(p)
  \/ \E p \in Procs : LockTimeout(p)
  \/ \E p \in Procs : Eligibility(p)
  \/ \E p \in Procs : Recheck(p)
  \/ \E p \in Procs : Commit(p)
  \/ \E p \in Procs : AppendFail(p)
  \/ \E p \in Procs : LogRelease(p)
  \/ \E p \in Procs : Fault(p)
  \/ Tick
  \/ \E i \in 1..MaxRequests : VoidPayment(i)

Spec == Init /\ [][Next]_vars

TypeOK ==
  /\ lock \in 0..NumProcs
  /\ now \in 0..MaxTime
  /\ \A p \in Procs : pc[p] \in {"idle", "preIdem", "preReceipt", "acquire", "elig",
                                 "recheck", "commit", "log", "done"}

\* ----------------------------------------------- the amount validators
\* ApiManager.validatePaymentAmount of js/api.js
ApiManager_validatePaymentAmount(amount) ==
  LET num == amount
  IN IF num <= 0 THEN [valid |-> FALSE, msg |-> "Amount must be greater than zero"]
     ELSE IF num < 5 THEN [valid |-> FALSE, msg |-> "Minimum amount"]
     ELSE IF num > 10000 THEN [valid |-> FALSE, msg |-> "Maximum amount"]
     ELSE IF num % 5 # 0 THEN [valid |-> FALSE, msg |-> "Amount must be a multiple"]
     ELSE [valid |-> TRUE, msg |-> "Valid amount"]

\* the amounts tried: around zero and the minimum, and around the maximum
AmountInputs ==
  (-AmountProbe..AmountProbe)
    \cup {MAX_PAYMENT_AMOUNT - 5, MAX_PAYMENT_AMOUNT - 1, MAX_PAYMENT_AMOUNT,
          MAX_PAYMENT_AMOUNT + 1, MAX_PAYMENT_AMOUNT + 5}

InitAmount ==
  /\ RecordInit /\ LoginIdle /\ SetupIdle /\ ExtraIdle
  /\ amountArg \in AmountInputs
  /\ serverResult = NoVerdict
  /\ clientResult = NoVerdict

ValidateOnServer ==
  /\ serverResult = NoVerdict
  /\ serverResult' = validatePaymentAmount(amountArg)
  /\ UNCHANGED <<amountArg, clientResult, recordVars, loginVars, setupVars, extraVars>>

ValidateOnClient ==
  /\ clientResult = NoVerdict
  /\ clientResult' = ApiManager_validatePaymentAmount(amountArg)
  /\ UNCHANGED <<amountArg, serverResult, recordVars, loginVars, setupVars, extraVars>>

NextAmount == ValidateOnServer \/ ValidateOnClient

SpecAmount == InitAmount /\ [][NextAmount]_vars

\* ------------------------------------------- the eligibility validator
\* the ledgers the check is applied to: empty, one payment of ST1, the
\* same payment voided
EligPayment(amount) ==
  PaymentRow(<<0, 0>>,
             [studentId |-> "ST1", amount |-> amount, physicalReceiptNo |-> "R1",
              idempotencyKey |-> Uuid(1), paymentDate |-> 0],
             "SEC1", "admin", 0)

EligLedgers ==
  { <<>>,
    <<EligPayment(80)>>,
    <<EligPayment(65)>>,
    <<[EligPayment(80) EXCEPT ![11] = TRUE]>> }

\* a request inside the lock, about to run step 6, over a Students sheet
\* whose row for ST1 is active or not and expects 85 or 100
InitEligibility ==
  /\ AmountIdle /\ LoginIdle /\ SetupIdle /\ ExtraIdle
  /\ \E status \in {"Active", "Inactive"}, expected \in {defaultExpectedAmount, 100} :
       Students = << StudentRowOf("ST1", "SEC1", status, expected),
                     StudentRow("ST2", "STU2", "Ben", "SEC2", 0) >>
  /\ Payments \in EligLedgers
  /\ AuditLog = <<>>
  /\ now = 0
  /\ reqCount = 1
  /\ \E p \in Procs, studentId \in {"ST1", "ST2", "ST9"}, amount \in {5, 20, 25} :
       /\ lock = p
       /\ pc = [q \in Procs |-> IF q = p THEN "elig" ELSE "idle"]
       /\ req = [q \in Procs |->
                   IF q = p THEN [studentId |-> studentId, amount |-> amount,
                                  physicalReceiptNo |-> "R2", idempotencyKey |-> Uuid(2),
                                  paymentDate |-> 0]
                   ELSE NoReq]
  /\ session = [p \in Procs |-> SessionOf(p)]
  /\ attempt = [p \in Procs |-> 0]
  /\ sleeps = [p \in Procs |-> <<>>]
  /\ elig = [p \in Procs |-> NoElig]
  /\ newId = [p \in Procs |-> NoPayment]
  /\ resp = [p \in Procs |-> NoResp]

NextEligibility == \E p \in Procs : Eligibility(p)

SpecEligibility == InitEligibility /\ [][NextEligibility]_vars

\* ------------------------------------------------------------ handleLogin
\* the credentials the clients send
LoginNames == {"admin", "t1", "ghost"}
LoginPasswords == {"ssc2025", "pw1"}

\* the first Treasurers row the credentials match, 0 when there is none
MatchingAccount(rows, username, password) ==
  FirstMatch({i \in 1..Len(rows) :
    /\ Col(rows[i], 2) = username
    /\ Col(rows[i], 3) = hashValue(password)
    /\ Col(rows[i], 7)})

InitLogin ==
  /\ RecordInit /\ AmountIdle /\ SetupIdle /\ ExtraIdle
  /\ Sessions = <<>>
  /\ loginPc = [p \in Procs |-> "idle"]
  /\ loginUser = [p \in Procs |-> ""]
  /\ loginRows = [p \in Procs |-> {}]
  /\ loginCount = 0

\* the credentials are checked against the Treasurers rows; on a match the
\* Sessions rows are read and the active ones of the user noted
LoginScan(p) ==
  /\ loginPc[p] = "idle"
  /\ loginCount < MaxLogins
  /\ loginCount' = loginCount + 1
  /\ \E username \in LoginNames, password \in LoginPasswords :
       LET i == MatchingAccount(getDataRows(Treasurers), username, password)
           sessRows == getDataRows(Sessions)
       IN IF i = 0
          THEN UNCHANGED <<loginPc, loginUser, loginRows>>
          ELSE /\ loginPc' = [loginPc EXCEPT ![p] = "deactivate"]
               /\ loginUser' = [loginUser EXCEPT ![p] = username]
               /\ loginRows' = [loginRows EXCEPT ![p] =
                    {j \in 1..Len(sessRows) :
                       Col(sessRows[j], 1) = username /\ Col(sessRows[j], 8)}]
  /\ UNCHANGED <<Sessions, recordVars, amountVars, setupVars, extraVars>>

\* the IsActive cell of each row noted is set to false
LoginDeactivate(p) ==
  /\ loginPc[p] = "deactivate"
  /\ Sessions' = [j \in 1..Len(Sessions) |->
                    IF j \in loginRows[p] THEN [Sessions[j] EXCEPT ![9] = FALSE]
                    ELSE Sessions[j]]
  /\ loginPc' = [loginPc EXCEPT ![p] = "append"]
  /\ UNCHANGED <<loginUser, loginRows, loginCount, recordVars, amountVars, setupVars, extraVars>>

\* the new session is appended, active, under a fresh token
LoginAppend(p) ==
  /\ loginPc[p] = "append"
  /\ LET i == FirstMatch({n \in 1..Len(Treasurers) : Col(Treasurers[n], 2) = loginUser[p]})
         row == Treasurers[i]
     IN Sessions' = Append(Sessions,
          SessionRow(Uuid(Len(Sessions) + 1), loginUser[p], Col(row, 4), Col(row, 5),
                     Col(row, 6), now))
  /\ loginPc' = [loginPc EXCEPT ![p] = "idle"]
  /\ loginUser' = [loginUser EXCEPT ![p] = ""]
  /\ loginRows' = [loginRows EXCEPT ![p] = {}]
  /\ UNCHANGED <<loginCount, recordVars, amountVars, setupVars, extraVars>>

NextLogin ==
  \/ \E p \in Procs : LoginScan(p)
  \/ \E p \in Procs : LoginDeactivate(p)
  \/ \E p \in Procs : LoginAppend(p)

SpecLogin == InitLogin /\ [][NextLogin]_vars

\* ---------------------------------------------------------- setupDatabase
\* the first n cells of a row, empty where the row ends
CurrentHeaders(row, n) == [i \in 1..n |-> IF i <= Len(row) THEN row[i] ELSE ""]

\* ensureSheetWithHeaders: the sheet is inserted when missing, and its first
\* row rewritten when one of the header cells is empty or differs
ensureSheetWithHeaders(sheet, headers) ==
  LET row == IF sheet.exists THEN sheet.row ELSE <<>>
      currentHeaders == CurrentHeaders(row, Len(headers))
      needWrite == \E i \in 1..Len(headers) :
                     currentHeaders[i] = "" \/ Trim(currentHeaders[i]) # headers[i]
      width == IF Len(row) > Len(headers) THEN Len(row) ELSE Len(headers)
  IN IF needWrite
     THEN SheetWith([i \in 1..width |-> IF i <= Len(headers) THEN headers[i] ELSE row[i]])
     ELSE SheetWith(row)

\* the Departments sheet seeded without looking at its rows
DepartmentsEmpty_Always(deptRows) == TRUE

\* seed Departments if empty
DepartmentsEmpty(deptRows) == Len(deptRows) = 0

\* a Treasurers row has the user name admin, in any case
adminExists(treasRows) ==
  \E i \in 1..Len(treasRows) : ToLowerCase(Col(treasRows[i], 2)) = "admin"

\* the first rows a sheet can hold before setupDatabase runs
HeaderRows(name) ==
  { <<>>,
    sheetsToCreate(name),
    Append(sheetsToCreate(name), "Notes"),
    [sheetsToCreate(name) EXCEPT ![1] = "ID"] }

DepartmentRows == { <<>>, SeedDepartments, << <<7, "ENG">> >> }

TreasurerRows ==
  { <<>>,
    << TreasurerRow([prefix |-> "T", n |-> 1], "Tess", "t1", "pw1", "ICT", "SEC1", 0) >>,
    << [DefaultAdminRow(0) EXCEPT ![3] = "Admin"] >>,
    << [DefaultAdminRow(0) EXCEPT ![3] = "root"] >> }

\* the states a sheet can be in before setupDatabase runs: missing, or
\* present with one of the first rows
SheetStates(name) == {NoSheet} \cup {SheetWith(row) : row \in HeaderRows(name)}

\* a spreadsheet before setupDatabase; a missing sheet has no data rows
InitSetup ==
  /\ RecordInit /\ AmountIdle /\ LoginIdle /\ ExtraIdle
  /\ Headers \in {h \in [SheetNames -> UNION {SheetStates(name) : name \in SheetNames}] :
                    \A name \in SheetNames : h[name] \in SheetStates(name)}
  /\ Departments \in DepartmentRows
  /\ Treasurers \in TreasurerRows
  /\ ~Headers["Departments"].exists => Departments = <<>>
  /\ ~Headers["Treasurers"].exists => Treasurers = <<>>
  /\ setupRuns = 0

\* one run of setupDatabase
SetupDatabase ==
  /\ setupRuns < MaxRuns
  /\ setupRuns' = setupRuns + 1
  /\ Headers' = [name \in SheetNames |->
                   ensureSheetWithHeaders(Headers[name], sheetsToCreate(name))]
  /\ Departments' = IF DepartmentsEmpty(getDataRows(Departments))
                    THEN Departments \o SeedDepartments
                    ELSE Departments
  /\ Treasurers' = IF ~adminExists(getDataRows(Treasurers))
                   THEN Append(Treasurers, DefaultAdminRow(now))
                   ELSE Treasurers
  /\ UNCHANGED <<recordVars, amountVars, loginVars, extraVars>>

NextSetup == SetupDatabase \/ Tick

SpecSetup == InitSetup /\ [][NextSetup]_vars

\* ----------------------------------------------------- initializeDatabase
\* String.prototype.length of the passwords in use
StrLen(s) ==
  CASE s = "securepassword" -> 14
    [] s = "short" -> 5
    [] OTHER -> 0

InitData(adminName, adminUsername, adminPassword) ==
  [adminName |-> adminName, adminUsername |-> adminUsername, adminPassword |-> adminPassword]

\* the payloads of the initializeDatabase calls: three administrators (two
\* of them with user names that differ in case only), a short password and a
\* missing name
InitPayloads ==
  { InitData("Ann", "admin", "securepassword"),
    InitData("Bob", "root", "securepassword"),
    InitData("Cy", "Admin", "securepassword"),
    InitData("Dee", "root", "short"),
    InitData("", "root", "securepassword") }

\* the headers createDatabaseSheets gives a sheet it inserts
sheetsConfig(name) == sheetsToCreate(name)

\* the row initializeDatabase appends for the first admin
FirstAdminRow(data, clock) ==
  <<[prefix |-> "T", n |-> clock], data.adminName, data.adminUsername,
    hashValue(data.adminPassword), "Admin", "All", "All", TRUE, clock, clock, NoDate>>

InitReturn(p, status, message) ==
  /\ initPc' = [initPc EXCEPT ![p] = "done"]
  /\ initResp' = [initResp EXCEPT ![p] = [status |-> status, message |-> message]]
  /\ initMissing' = [initMissing EXCEPT ![p] = {}]

MsgAlreadyInitialized == "Database is already initialized"

\* the entry: the fields and the password length are validated, then the
\* DB_INITIALIZED script property is read
InitCheck(p) ==
  /\ initPc[p] \in {"idle", "done"}
  /\ initCount < MaxInits
  /\ initCount' = initCount + 1
  /\ \E data \in InitPayloads :
       /\ initData' = [initData EXCEPT ![p] = data]
       /\ IF data.adminName = "" \/ data.adminUsername = "" \/ data.adminPassword = ""
          THEN InitReturn(p, "error", "All fields are required for database initialization")
          ELSE IF StrLen(data.adminPassword) < 8
          THEN InitReturn(p, "error", "Password must be at least 8 characters long")
          ELSE IF Properties.DB_INITIALIZED = "true"
          THEN InitReturn(p, "error", MsgAlreadyInitialized)
          ELSE /\ initPc' = [initPc EXCEPT ![p] = "list"]
               /\ initResp' = [initResp EXCEPT ![p] = NoInitResp]
               /\ initMissing' = initMissing
  /\ UNCHANGED <<Properties, recordVars, amountVars, loginVars, setupVars, receiptVars, clientVars, printVars>>

\* createDatabaseSheets reads the names of the sheets there are
InitListSheets(p) ==
  /\ initPc[p] = "list"
  /\ initMissing' = [initMissing EXCEPT ![p] = {name \in SheetNames : ~Headers[name].exists}]
  /\ initPc' = [initPc EXCEPT ![p] = "insert"]
  /\ UNCHANGED <<Properties, initData, initResp, initCount,
                 recordVars, amountVars, loginVars, setupVars, receiptVars, clientVars, printVars>>

\* createDatabaseSheets inserts the sheets it found missing, with their
\* headers, and seeds the Departments sheet when it created it; insertSheet
\* throws for a name that exists by now, and initializeDatabase returns the
\* error of createDatabaseSheets
InitInsertSheets(p) ==
  /\ initPc[p] = "insert"
  /\ IF \E name \in initMissing[p] : Headers[name].exists
     THEN /\ InitReturn(p, "error", "Failed to create database sheets")
          /\ UNCHANGED <<Headers, Departments>>
     ELSE /\ Headers' = [name \in SheetNames |->
                           IF name \in initMissing[p] THEN SheetWith(sheetsConfig(name))
                           ELSE Headers[name]]
          /\ Departments' = IF "Departments" \in initMissing[p]
                            THEN Departments \o SeedDepartments ELSE Departments
          /\ initPc' = [initPc EXCEPT ![p] = "scan"]
          /\ initMissing' = [initMissing EXCEPT ![p] = {}]
          /\ UNCHANGED initResp
  /\ UNCHANGED <<Properties, initData, initCount, Treasurers, setupRuns,
                 recordVars, amountVars, loginVars, receiptVars, clientVars, printVars>>

\* the Treasurers rows are read and searched for the user name, in lower case
InitScan(p) ==
  /\ initPc[p] = "scan"
  /\ LET treasRows == getDataRows(Treasurers)
     IN IF \E i \in 1..Len(treasRows) :
             ToLowerCase(Col(treasRows[i], 2)) = ToLowerCase(initData[p].adminUsername)
        THEN InitReturn(p, "error", "Username already exists")
        ELSE /\ initPc' = [initPc EXCEPT ![p] = "append"]
             /\ UNCHANGED <<initResp, initMissing>>
  /\ UNCHANGED <<Properties, initData, initCount,
                 recordVars, amountVars, loginVars, setupVars, receiptVars, clientVars, printVars>>

\* the admin row is appended
InitAppend(p) ==
  /\ initPc[p] = "append"
  /\ Treasurers' = Append(Treasurers, FirstAdminRow(initData[p], now))
  /\ initPc' = [initPc EXCEPT ![p] = "mark"]
  /\ UNCHANGED <<Properties, initData, initMissing, initResp, initCount,
                 Headers, Departments, setupRuns, recordVars, amountVars, loginVars, receiptVars, clientVars, printVars>>

\* the script properties are set and the call returns
InitMark(p) ==
  /\ initPc[p] = "mark"
  /\ Properties' = InitializedProperties(now, initData[p].adminUsername)
  /\ InitReturn(p, "ok", "Database initialized successfully")
  /\ UNCHANGED <<initData, initCount, recordVars, amountVars, loginVars, setupVars, receiptVars, clientVars, printVars>>

\* a spreadsheet that was never initialized: without the sheets, or with
\* the sheets created and possibly a treasurer account
InitInitDb ==
  /\ RecordInit /\ AmountIdle /\ LoginIdle /\ InitDbIdle /\ ReceiptIdle /\ ClientIdle /\ PrintIdle
  /\ \/ /\ Headers = [name \in SheetNames |-> NoSheet]
        /\ Departments = <<>>
        /\ Treasurers = <<>>
     \/ /\ Headers = [name \in SheetNames |-> SheetWith(sheetsConfig(name))]
        /\ Departments = SeedDepartments
        /\ Treasurers \in
             { <<>>,
               << TreasurerRow([prefix |-> "T", n |-> 1], "Tess", "t1", "pw1", "ICT", "SEC1", 0) >> }
  /\ setupRuns = 0

NextInitDb ==
  \/ \E p \in Procs : InitCheck(p)
  \/ \E p \in Procs : InitListSheets(p)
  \/ \E p \in Procs : InitInsertSheets(p)
  \/ \E p \in Procs : InitScan(p)
  \/ \E p \in Procs : InitAppend(p)
  \/ \E p \in Procs : InitMark(p)

SpecInitDb == InitInitDb /\ [][NextInitDb]_vars

\* ------------------------------------------- generateUniqueReceiptNumber
\* formatDate(date, 'YYYYMMDD'): the digits of the calendar day
formatDate(t) == ToString(ToDateString(t))

\* String(n).padStart(3, '0')
PadStart3(n) ==
  IF n < 10 THEN "00" \o ToString(n)
  ELSE IF n < 100 THEN "0" \o ToString(n)
  ELSE ToString(n)

\* the values generateUniqueReceiptNumber can return over a ledger: the loop
\* returns the first drawn number that validateUniqueReceiptNumber accepts,
\* and the timestamp number when the numbers drawn in all maxAttempts rounds
\* are rejected
generateUniqueReceiptNumber(payRows, paymentDate, clock) ==
  LET dateStr == formatDate(paymentDate)
      receiptNo(sequence) == RECEIPT_NUMBER_PREFIX \o dateStr \o "-" \o PadStart3(sequence)
      drawn == {receiptNo(sequence) : sequence \in 0..(RandRange - 1)}
      accepted == {n \in drawn : validateUniqueReceiptNumber(payRows, n, NoPayment).valid}
      rejected == drawn \ accepted
      timestamp == clock
  IN {n \in accepted : maxAttempts >= 1}
       \cup (IF \E draws \in [1..maxAttempts -> rejected] : TRUE
             THEN {RECEIPT_NUMBER_PREFIX \o dateStr \o "-" \o ToString(timestamp)}
             ELSE {})

\* the physical receipt numbers typed in: an ordinary one and two that look
\* like the system numbers of day 1
PhysicalReceipts == {"R1", "R-1-000", "R-1-001"}

\* steps 9 to 11 of handleRecordPayment for a request that holds the lock
\* and has passed the checks of steps 6 to 8: the identifiers are generated,
\* the row is appended and the response carries the system receipt number
RecordCommitted ==
  /\ commitCount < MaxCommits
  /\ commitCount' = commitCount + 1
  /\ \E studentId \in {"ST1", "ST2"}, physicalReceiptNo \in PhysicalReceipts,
        rnd \in 0..(RandRange - 1) :
       LET r == Payload(studentId, 5, physicalReceiptNo, Uuid(commitCount + 1), now)
           paymentId == <<now, rnd>>
           v == validateStudentPaymentEligibility(getDataRows(Students), getDataRows(Payments),
                                                  studentId, r.amount, AdminSession)
       IN /\ v.valid
          /\ InLockReceiptMatch(getDataRows(Payments), physicalReceiptNo) = 0
          /\ SameDayMatch(getDataRows(Payments), studentId, now) = 0
          /\ \E systemReceiptNo \in generateUniqueReceiptNumber(getDataRows(Payments), now, now) :
               /\ Payments' = Append(Payments,
                    PaymentRow(paymentId, r, v.sectionId, AdminSession.user, now))
               /\ Receipts' = Append(Receipts,
                    [paymentId |-> paymentId, receiptNo |-> systemReceiptNo])
  /\ UNCHANGED <<Students, AuditLog, lock, now, reqCount,
                 pc, req, session, attempt, sleeps, elig, newId, resp>>
  /\ UNCHANGED <<amountVars, loginVars, setupVars, initVars, clientVars, printVars>>

NextReceipt == RecordCommitted \/ Tick

SpecReceipt == Init /\ [][NextReceipt]_vars

\* ------------------------------------------------ ApiManager (js/api.js)
\* validateSession: the session of the first active Sessions row with the
\* token, and the Sessions rows after the call; an expired or inactive
\* session is deactivated and gives no session (the inactivity limit of ten
\* minutes is less than a tick)
NoSession == [user |-> "", role |-> "", section |-> ""]

validateSession(sessRows, token, clock) ==
  LET i == FirstMatch({n \in 1..Len(sessRows) :
                         Col(sessRows[n], 0) = token /\ Col(sessRows[n], 8)})
  IN IF token = NoKey \/ i = 0 THEN [session |-> NoSession, rows |-> sessRows]
     ELSE IF clock > Col(sessRows[i], 6) \/ Col(sessRows[i], 7) < clock
       THEN [session |-> NoSession,
             rows |-> [sessRows EXCEPT ![i] = [sessRows[i] EXCEPT ![9] = FALSE]]]
     ELSE [session |-> [user |-> Col(sessRows[i], 1), role |-> Col(sessRows[i], 2),
                        section |-> Col(sessRows[i], 4)],
           rows |-> [sessRows EXCEPT ![i] = [sessRows[i] EXCEPT ![8] = clock]]]

\* String.prototype.includes on the messages in use: the auth keywords the
\* lower-cased message contains, and "HTTP 4" when the message contains it
KeywordsIn(message) ==
  CASE message = "unauthorized" -> {"unauthorized"}
    [] message = "HTTP 404: Not Found" -> {"HTTP 4"}
    [] OTHER -> {}

isAuthError(message) ==
  LET authKeywords == {"unauthorized", "session", "token", "login", "expired"}
  IN KeywordsIn(message) \cap authKeywords # {}

\* generateUUID
ClientUuid == [kind |-> "client", n |-> 2]

\* API.recordPayment without the key generation
RecordPaymentCall_NoKey ==
  /\ clientPc = "idle"
  /\ \E idempotencyKey \in {NoKey, K1}, token \in {Uuid(1), Uuid(9)} :
       callPayload' =
         [data |-> Payload("ST1", 50, "R1", idempotencyKey, 2), token |-> token]
  /\ attemptNo' = 1
  /\ clientPc' = "fetch"
  /\ UNCHANGED <<sent, lastError, callResult, redirected>>
  /\ UNCHANGED <<recordVars, amountVars, loginVars, setupVars, initVars, receiptVars, printVars>>

\* API.recordPayment: the key is generated when the payment data has none,
\* then API.call builds the payload with the token, once for all attempts;
\* Auth.getToken() gives the token of the admin's active session, or one
\* that no Sessions row carries
RecordPaymentCall ==
  /\ clientPc = "idle"
  /\ \E idempotencyKey \in {NoKey, K1}, token \in {Uuid(1), Uuid(9)} :
       callPayload' =
         [data |-> Payload("ST1", 50, "R1",
                           IF idempotencyKey = NoKey THEN ClientUuid ELSE idempotencyKey, 2),
          token |-> token]
  /\ attemptNo' = 1
  /\ clientPc' = "fetch"
  /\ UNCHANGED <<sent, lastError, callResult, redirected>>
  /\ UNCHANGED <<recordVars, amountVars, loginVars, setupVars, initVars, receiptVars, printVars>>

\* fetch: the request of the attempt is sent
CallFetch ==
  /\ clientPc = "fetch"
  /\ sent' = sent + 1
  /\ clientPc' = "wait"
  /\ UNCHANGED <<callPayload, attemptNo, lastError, callResult, redirected>>
  /\ UNCHANGED <<recordVars, amountVars, loginVars, setupVars, initVars, receiptVars, printVars>>

\* the backend receives the next request sent (worker k serves the k-th
\* request): handleRecordPayment validates the session, answers
\* 'unauthorized' without one, and goes on to steps 1 and 2 with one
ClientReceive(p) ==
  /\ reqCount < sent
  /\ reqCount < MaxRequests
  /\ p = reqCount + 1
  /\ pc[p] \in {"idle", "done"}
  /\ LET v == validateSession(getDataRows(Sessions), callPayload.token, now)
     IN /\ Sessions' = v.rows
        /\ IF v.session = NoSession
           THEN /\ Return(p, createErrorResponse("unauthorized", NoPayment))
                /\ reqCount' = reqCount + 1
                /\ UNCHANGED <<Payments, Students, AuditLog, lock, now, session, attempt, sleeps>>
           ELSE Enter(p, callPayload.data, v.session)
  /\ UNCHANGED <<loginPc, loginUser, loginRows, loginCount>>
  /\ UNCHANGED <<amountVars, setupVars, initVars, receiptVars, clientVars, printVars>>

\* the catch block of the loop: the error is kept; no retry for an auth
\* error or a message with 'HTTP 4'; otherwise, before the last attempt,
\* the delay and the next attempt; after the loop the last error is thrown
Catch(error) ==
  /\ lastError' = error
  /\ IF isAuthError(error) \/ "HTTP 4" \in KeywordsIn(error)
     THEN clientPc' = "thrown" /\ attemptNo' = attemptNo
     ELSE IF attemptNo < retryAttempts
     THEN clientPc' = "fetch" /\ attemptNo' = attemptNo + 1
     ELSE clientPc' = "thrown" /\ attemptNo' = attemptNo

\* the response of the attempt arrives with status 200: an error result with
\* an auth message clears the session, redirects to the login page and
\* throws 'Authentication required'; any other result is returned
CallResponse ==
  /\ clientPc = "wait"
  /\ attemptNo \in Procs
  /\ reqCount >= attemptNo
  /\ pc[attemptNo] = "done"
  /\ LET result == resp[attemptNo]
     IN IF result.status = "error" /\ isAuthError(result.msg)
        THEN /\ redirected' = TRUE
             /\ Catch("Authentication required")
             /\ UNCHANGED callResult
        ELSE /\ clientPc' = "returned"
             /\ callResult' = result
             /\ UNCHANGED <<attemptNo, lastError, redirected>>
  /\ UNCHANGED <<callPayload, sent>>
  /\ UNCHANGED <<recordVars, amountVars, loginVars, setupVars, initVars, receiptVars, printVars>>

\* the response has a status that is not ok
CallHttpError ==
  /\ clientPc = "wait"
  /\ \E error \in {"HTTP 404: Not Found", "HTTP 500: Internal Server Error"} : Catch(error)
  /\ UNCHANGED <<callPayload, sent, callResult, redirected>>
  /\ UNCHANGED <<recordVars, amountVars, loginVars, setupVars, initVars, receiptVars, printVars>>

\* fetch rejects: the request or its response is lost
CallNetworkError ==
  /\ clientPc = "wait"
  /\ Catch("Failed to fetch")
  /\ UNCHANGED <<callPayload, sent, callResult, redirected>>
  /\ UNCHANGED <<recordVars, amountVars, loginVars, setupVars, initVars, receiptVars, printVars>>

\* after redirectToLogin has set window.location the page is unloaded at
\* some time, and the call with it
PageUnload ==
  /\ redirected
  /\ clientPc \in {"fetch", "wait"}
  /\ clientPc' = "unloaded"
  /\ UNCHANGED <<callPayload, attemptNo, sent, lastError, callResult, redirected>>
  /\ UNCHANGED <<recordVars, amountVars, loginVars, setupVars, initVars, receiptVars, printVars>>

NextClient ==
  \/ RecordPaymentCall
  \/ CallFetch
  \/ \E p \in Procs : ClientReceive(p)
  \/ CallResponse
  \/ CallHttpError
  \/ CallNetworkError
  \/ PageUnload
  \/ \E p \in Procs : PreIdem(p)
  \/ \E p \in Procs : PreReceipt(p)
  \/ \E p \in Procs : AcquireLock(p)
  \/ \E p \in Procs : LockTimeout(p)
  \/ \E p \in Procs : Eligibility(p)
  \/ \E p \in Procs : Recheck(p)
  \/ \E p \in Procs : Commit(p)
  \/ \E p \in Procs : AppendFail(p)
  \/ \E p \in Procs : LogRelease(p)
  \/ \E p \in Procs : Fault(p)

SpecClient == Init /\ [][NextClient]_vars

\* ------------------------------------------------------ handlePrintSummary
\* PRINT_LOCK_TIMEOUT_SECONDS in ticks, rounded up
PrintLockTimeoutTicks == (PRINT_LOCK_TIMEOUT_SECONDS + 43199) \div 43200

MsgPrinting == "another user is printing. Try again in a few seconds."

\* the PrintJobs row handlePrintSummary appends
PrintJobRow(jobId, sectionId, user, clock) ==
  <<jobId, sectionId, user, "SUMMARY", "IN_PROGRESS", clock, NoDate, [period |-> "overall"]>>

\* the test of the scan for a running job of the section
PrintJobBlocks(row, sectionId, clock) ==
  /\ Col(row, 1) = sectionId
  /\ Col(row, 3) = "IN_PROGRESS"
  /\ Col(row, 5) > clock - PrintLockTimeoutTicks

PrintReturn(p, status, msg, jobId) ==
  /\ printPc' = [printPc EXCEPT ![p] = "done"]
  /\ printResp' = [printResp EXCEPT ![p] = [status |-> status, msg |-> msg, jobId |-> jobId]]

\* the entry: session, section of the payload or of the session, section
\* access of a treasurer
PrintReceive(p) ==
  /\ printPc[p] \in {"idle", "done"}
  /\ printCount < MaxPrints
  /\ printCount' = printCount + 1
  /\ \E section \in {"", "SEC1", "SEC2"} :
       LET sess == SessionOf(p)
           sectionId == IF section = "" THEN sess.section ELSE section
       IN /\ printArg' = [printArg EXCEPT ![p] =
                            [NoPrintArg EXCEPT !.sectionId = sectionId, !.user = sess.user]]
          /\ IF sess.role = "Treasurer" /\ sectionId # sess.section
             THEN PrintReturn(p, "error", "unauthorized - not your section", <<>>)
             ELSE /\ printPc' = [printPc EXCEPT ![p] = "acquire"]
                  /\ printResp' = [printResp EXCEPT ![p] = NoPrintResp]
  /\ UNCHANGED <<PrintJobs, recordVars, amountVars, loginVars, setupVars,
                 initVars, receiptVars, clientVars>>

\* acquireLock: the one attempt of acquireLockWithRetry obtains the script lock
PrintAcquire(p) ==
  /\ printPc[p] = "acquire"
  /\ lock = 0
  /\ lock' = p
  /\ printPc' = [printPc EXCEPT ![p] = "check"]
  /\ UNCHANGED <<PrintJobs, printArg, printResp, printCount>>
  /\ UNCHANGED <<Payments, Students, AuditLog, now, reqCount,
                 pc, req, session, attempt, sleeps, elig, newId, resp>>
  /\ UNCHANGED <<amountVars, loginVars, setupVars, initVars, receiptVars, clientVars>>

\* acquireLock: waitLock times out while the lock is held
PrintBusy(p) ==
  /\ printPc[p] = "acquire"
  /\ lock # 0
  /\ PrintReturn(p, "error", MsgPrinting, <<>>)
  /\ UNCHANGED <<PrintJobs, printArg, printCount>>
  /\ UNCHANGED <<recordVars, amountVars, loginVars, setupVars, initVars, receiptVars, clientVars>>

\* inside the lock: the scan of the PrintJobs rows for a running job of the
\* section, then the append of the job row; the job id is 'PJ' and the second
\* of the call (the second within the tick is drawn)
PrintCreate(p) ==
  /\ printPc[p] = "check"
  /\ LET printRows == getDataRows(PrintJobs)
         sectionId == printArg[p].sectionId
     IN IF \E i \in 1..Len(printRows) : PrintJobBlocks(printRows[i], sectionId, now)
        THEN /\ releaseLock(p)
             /\ PrintReturn(p, "error", MsgPrinting, <<>>)
             /\ UNCHANGED <<PrintJobs, printArg>>
        ELSE \E second \in 0..(RandRange - 1) :
               LET jobId == <<"PJ", now, second>>
               IN /\ PrintJobs' = Append(PrintJobs,
                                         PrintJobRow(jobId, sectionId, printArg[p].user, now))
                  /\ printArg' = [printArg EXCEPT ![p] =
                                    [@ EXCEPT !.jobId = jobId, !.printRows = printRows,
                                              !.now = now]]
                  /\ printPc' = [printPc EXCEPT ![p] = "summary"]
                  /\ UNCHANGED <<lock, printResp>>
  /\ UNCHANGED printCount
  /\ UNCHANGED <<Payments, Students, AuditLog, now, reqCount,
                 pc, req, session, attempt, sleeps, elig, newId, resp>>
  /\ UNCHANGED <<amountVars, loginVars, setupVars, initVars, receiptVars, clientVars>>

\* the summary is built; the job is marked: the rows read before the append
\* are scanned for the job id, and the sheet row of the first hit gets the
\* status DONE and the finish time; audit entry, release, success
PrintFinish(p) ==
  /\ printPc[p] = "summary"
  /\ LET printRows == printArg[p].printRows
         j == FirstMatch({n \in 1..Len(printRows) : Col(printRows[n], 0) = printArg[p].jobId})
     IN PrintJobs' = IF j = 0 THEN PrintJobs
                     ELSE [PrintJobs EXCEPT ![j] =
                             [PrintJobs[j] EXCEPT ![5] = "DONE", ![6] = printArg[p].now]]
  /\ releaseLock(p)
  /\ PrintReturn(p, "ok", "", printArg[p].jobId)
  /\ UNCHANGED <<printArg, printCount>>
  /\ UNCHANGED <<Payments, Students, AuditLog, now, reqCount,
                 pc, req, session, attempt, sleeps, elig, newId, resp>>
  /\ UNCHANGED <<amountVars, loginVars, setupVars, initVars, receiptVars, clientVars>>

\* a call inside the try throws: the catch releases the lock and throws on
PrintFault(p) ==
  /\ printPc[p] \in {"check", "summary"}
  /\ releaseLock(p)
  /\ PrintReturn(p, "error", "Unexpected error occurred", <<>>)
  /\ UNCHANGED <<PrintJobs, printArg, printCount>>
  /\ UNCHANGED <<Payments, Students, AuditLog, now, reqCount,
                 pc, req, session, attempt, sleeps, elig, newId, resp>>
  /\ UNCHANGED <<amountVars, loginVars, setupVars, initVars, receiptVars, clientVars>>

NextPrint ==
  \/ \E p \in Procs : PrintReceive(p)
  \/ \E p \in Procs : PrintAcquire(p)
  \/ \E p \in Procs : PrintBusy(p)
  \/ \E p \in Procs : PrintCreate(p)
  \/ \E p \in Procs : PrintFinish(p)
  \/ \E p \in Procs : PrintFault(p)
  \/ Tick

SpecPrint == Init /\ [][NextPrint]_vars

\* ==================================================================
\* Properties
\* ==================================================================
Rows == 1..Len(Payments)
PaymentId(i) == Col(Payments[i], 0)
StudentOf(i) == Col(Payments[i], 1)
AmountOf(i) == Col(Payments[i], 3)
PaymentDateOf(i) == Col(Payments[i], 4)
CreatedAt(i) == Col(Payments[i], 6)
ReceiptOf(i) == Col(Payments[i], 7)
KeyOf(i) == Col(Payments[i], 9)
Voided(i) == Col(Payments[i], 10)
InWindow(i) == CreatedAt(i) > now - RetentionTicks
NormReceipt(r) == ToUpperCase(Trim(r))
MsgRecorded == "Payment recorded successfully"
MsgDuplicate == "payment already recorded"
MsgDuplicateInLock == "payment already recorded (detected in lock)"
MsgReceiptUsed == "Receipt number already used in payment"
MsgSameDay == "A payment for this student has already been recorded today"
MsgBusy == "System is busy"
MsgUnexpected == "Unexpected error occurred"
MsgFailedSave == "Failed to save payment record"
MsgRequired == "studentId, amount, and physicalReceiptNo are required"
MsgNotInSection == "Student not in your section"

\* the row i is the payment the request of p repeats: same student, amount,
\* idempotency key and physical receipt number
Repeats(p, i) ==
  /\ KeyOf(i) = req[p].idempotencyKey
  /\ StudentOf(i) = req[p].studentId
  /\ AmountOf(i) = req[p].amount
  /\ ReceiptOf(i) = req[p].physicalReceiptNo

\* C1: a request that repeats a committed non-voided payment inside the
\* retention window is answered at the pre-lock key check with a success
\* response, duplicate:true and the payment id of that payment (the id the
\* first response carried), and appends no row; it is not answered with a
\* receipt or same-day error.
C1_FirstResponseNamesRow ==
  \A p \in Procs :
    (pc[p] = "done" /\ resp[p].msg = MsgRecorded) =>
      /\ resp[p].status = "ok" /\ ~resp[p].duplicate
      /\ \E i \in Rows : PaymentId(i) = resp[p].paymentId /\ Repeats(p, i)

C1_RetryStep ==
  \A p \in Procs :
    (pc[p] = "preIdem" /\ pc'[p] # "preIdem") =>
      \A i \in Rows :
        (~Voided(i) /\ InWindow(i) /\ Repeats(p, i)) =>
          /\ pc'[p] = "done"
          /\ resp'[p].status = "ok"
          /\ resp'[p].duplicate
          /\ resp'[p].paymentId = PaymentId(i)
          /\ Payments' = Payments

C1_RetryIsDuplicate == [](C1_FirstResponseNamesRow) /\ [][C1_RetryStep]_vars

C1_Witness ==
  \E p, q \in Procs :
    /\ p # q
    /\ pc[q] = "done" /\ resp[q].msg = MsgRecorded
    /\ pc[p] = "done" /\ resp[p].msg = MsgDuplicate /\ resp[p].duplicate
    /\ resp[p].paymentId = resp[q].paymentId
    /\ Len(Payments) = 1 /\ Repeats(p, 1) /\ Repeats(q, 1)
    /\ ~Voided(1) /\ InWindow(1)

\* C2: for every student the non-voided payments sum to at most the
\* student's expected amount.
C2_SumWithinExpected ==
  \A s \in 1..Len(Students) :
    TotalPaid(Payments, Col(Students[s], 0).s) <= Col(Students[s], 6).n

\* C3: no two non-voided payments created within the retention window share
\* an idempotency key, whatever the interleaving of the requests.
C3_UniqueKeyInWindow ==
  \A i, j \in Rows :
    (i # j /\ ~Voided(i) /\ ~Voided(j) /\ InWindow(i) /\ InWindow(j)) => KeyOf(i) # KeyOf(j)

\* two requests with one key raced: the loser was answered inside the lock
C3_Witness ==
  \E p \in Procs :
    /\ pc[p] = "done" /\ resp[p].msg = MsgDuplicateInLock
    /\ Len(Payments) = 1
    /\ KeyOf(1) = req[p].idempotencyKey /\ ~Voided(1) /\ InWindow(1)

\* C4: no two non-voided payments share a physical receipt number (trimmed,
\* case-insensitive); a request whose receipt number is taken does not reach
\* the commit, and the receipt error names a non-voided payment that carries
\* that receipt number.
C4_UniqueReceiptInv ==
  \A i, j \in Rows :
    (i # j /\ ~Voided(i) /\ ~Voided(j)) => NormReceipt(ReceiptOf(i)) # NormReceipt(ReceiptOf(j))

C4_RejectStep ==
  \A p \in Procs :
    /\ (pc[p] \in {"preReceipt", "recheck"} /\ pc'[p] = "done" /\ resp'[p].msg = MsgReceiptUsed) =>
         /\ resp'[p].status = "error"
         /\ Payments' = Payments
         /\ \E i \in Rows : /\ PaymentId(i) = resp'[p].paymentId
                            /\ ~Voided(i)
                            /\ NormReceipt(ReceiptOf(i)) = NormReceipt(req[p].physicalReceiptNo)
    /\ (/\ pc[p] = "recheck" /\ pc'[p] # "recheck"
        /\ \A i \in Rows : KeyOf(i) # req[p].idempotencyKey
        /\ \E i \in Rows : ~Voided(i) /\ NormReceipt(ReceiptOf(i)) = NormReceipt(req[p].physicalReceiptNo)) =>
         /\ pc'[p] = "done"
         /\ resp'[p].msg \in {MsgReceiptUsed, MsgUnexpected}

C4_UniqueReceipt == [](C4_UniqueReceiptInv) /\ [][C4_RejectStep]_vars

\* a request with receipt "r1" was rejected naming the payment with "R1"
C4_Witness ==
  \E p \in Procs :
    /\ pc[p] = "done" /\ resp[p].msg = MsgReceiptUsed
    /\ req[p].physicalReceiptNo = "r1"
    /\ \E i \in Rows : PaymentId(i) = resp[p].paymentId /\ ReceiptOf(i) = "R1" /\ ~Voided(i)
                       /\ KeyOf(i) # req[p].idempotencyKey

\* C5: a student has at most one non-voided payment per calendar day; a
\* request that passed the key and receipt re-checks is rejected when the
\* student has a non-voided payment on the calendar day of its payment date,
\* and goes on to the commit when the student has none on that day.
C5_OnePerDayInv ==
  \A i, j \in Rows :
    (i # j /\ ~Voided(i) /\ ~Voided(j) /\ StudentOf(i) = StudentOf(j)) =>
      ToDateString(PaymentDateOf(i)) # ToDateString(PaymentDateOf(j))

SameDayRow(p, i) ==
  /\ StudentOf(i) = req[p].studentId
  /\ ~Voided(i)
  /\ ToDateString(PaymentDateOf(i)) = ToDateString(req[p].paymentDate)

C5_SameDayStep ==
  \A p \in Procs :
    (/\ pc[p] = "recheck" /\ pc'[p] # "recheck"
     /\ \A i \in Rows : KeyOf(i) # req[p].idempotencyKey
     /\ \A i \in Rows : Voided(i) \/ NormReceipt(ReceiptOf(i)) # NormReceipt(req[p].physicalReceiptNo)) =>
      IF \E i \in Rows : SameDayRow(p, i)
      THEN pc'[p] = "done" /\ resp'[p].status = "error" /\ resp'[p].msg \in {MsgSameDay, MsgUnexpected}
      ELSE pc'[p] = "commit" \/ (pc'[p] = "done" /\ resp'[p].msg = MsgUnexpected)

C5_OnePerDay == [](C5_OnePerDayInv) /\ [][C5_SameDayStep]_vars

\* a request was rejected for the day of a payment that differs from it in
\* receipt number, amount and instant
C5_Witness ==
  \E p \in Procs :
    /\ pc[p] = "done" /\ resp[p].msg = MsgSameDay
    /\ \E i \in Rows : /\ SameDayRow(p, i)
                       /\ PaymentDateOf(i) # req[p].paymentDate
                       /\ AmountOf(i) # req[p].amount
                       /\ NormReceipt(ReceiptOf(i)) # NormReceipt(req[p].physicalReceiptNo)

\* C6: among concurrent requests for one student whose amounts together pass
\* the expected amount, the requests beyond the ceiling are rejected by the
\* eligibility re-check inside the lock: a request that is inside the lock
\* past the eligibility check keeps the student's total within the expected
\* amount.
ExpectedOf(studentId) ==
  LET s == CHOOSE s \in 1..Len(Students) : Col(Students[s], 0).s = studentId
  IN Col(Students[s], 6).n

C6_CeilingRejectedByEligibility ==
  \A p \in Procs :
    pc[p] \in {"recheck", "commit", "log"} =>
      TotalPaid(Payments, req[p].studentId)
        + (IF pc[p] = "log" THEN 0 ELSE req[p].amount) <= ExpectedOf(req[p].studentId)

C8_AttemptsInv ==
  \A p \in Procs :
    /\ attempt[p] <= 3
    /\ pc[p] = "acquire" =>
         /\ attempt[p] < 3
         /\ sleeps[p] = [i \in 1..attempt[p] |-> 100 * i]
    /\ (pc[p] = "done" /\ resp[p].msg = MsgBusy) =>
         /\ resp[p].status = "error"
         /\ attempt[p] = 3
         /\ sleeps[p] = <<100, 200>>

C8_BusyStep ==
  \A p \in Procs :
    (pc[p] = "acquire" /\ pc'[p] = "done") =>
      /\ resp'[p].msg = MsgBusy
      /\ Payments' = Payments
      /\ lock' = lock

C8_BusyTerminates == [](C8_AttemptsInv) /\ [][C8_BusyStep]_vars

C8_Witness ==
  \E p \in Procs :
    /\ pc[p] = "done" /\ resp[p].msg = MsgBusy
    /\ \A i \in Rows : KeyOf(i) # req[p].idempotencyKey

\* C9: no global lock is held: a lock attempt of a request fails only while
\* a request for the same student holds the lock.
C9_NoGlobalLockStep ==
  \A q \in Procs :
    (pc[q] = "acquire" /\ attempt'[q] > attempt[q]) =>
      /\ lock # 0
      /\ req[lock].studentId = req[q].studentId

C9_NoGlobalLock == [][C9_NoGlobalLockStep]_vars

\* C10: two requests for the same student are never both between lock
\* acquisition and lock release.
C10_SameStudentSerialized ==
  \A p, q \in Procs :
    (p # q /\ req[p].studentId = req[q].studentId) => ~(InLock(p) /\ InLock(q))

\* one request is inside the lock while another one for the same student has
\* already failed a lock attempt and waits
C10_Witness ==
  \E p, q \in Procs :
    /\ p # q
    /\ req[p].studentId = req[q].studentId
    /\ InLock(p) /\ lock = p
    /\ pc[q] = "acquire" /\ attempt[q] >= 1

\* C11: a request that repeats a committed payment (a non-voided row inside
\* the retention window with its idempotency key, student, amount and receipt
\* number) is never answered with a validation error, whatever the
\* interleaving: its response is the success response with duplicate:true
\* and the payment id of that row (a busy lock or a failing sheet call
\* aside).  The request that appended the row itself is past the commit and
\* is not a repeat.
C11_RepeatStep ==
  \A p \in Procs :
    (pc[p] \notin {"done", "log"} /\ pc'[p] = "done") =>
      \A i \in Rows :
        (~Voided(i) /\ InWindow(i) /\ Repeats(p, i)) =>
          \/ /\ resp'[p].status = "ok"
             /\ resp'[p].duplicate
             /\ resp'[p].paymentId = PaymentId(i)
          \/ resp'[p].msg \in {MsgBusy, MsgUnexpected}

C11_RepeatedKeyNeverError == [][C11_RepeatStep]_vars

\* C12: a request changes the Payments rows only by appending one non-voided
\* row, at the commit that its success response follows; rows already there
\* are neither changed nor removed by it; and a request answered with the
\* persistence error 'Failed to save payment record' has no row in the
\* ledger.
IsPrefix(a, b) == Len(a) <= Len(b) /\ \A i \in 1..Len(a) : a[i] = b[i]

C12_FrameStep ==
  \A p \in Procs :
    /\ (pc[p] # pc'[p] /\ Payments' # Payments) =>
         /\ pc[p] = "commit" /\ pc'[p] = "log"
         /\ Len(Payments') = Len(Payments) + 1
         /\ IsPrefix(Payments, Payments')
         /\ ~Col(Payments'[Len(Payments')], 10)
         /\ Col(Payments'[Len(Payments')], 9) = req[p].idempotencyKey
    /\ (pc[p] # "done" /\ pc'[p] = "done" /\ resp'[p].msg = MsgRecorded) =>
         /\ pc[p] = "log"
         /\ \E i \in Rows : PaymentId(i) = resp'[p].paymentId
    /\ (pc[p] # "done" /\ pc'[p] = "done" /\ resp'[p].msg = MsgFailedSave) =>
         \A i \in 1..Len(Payments') : Col(Payments'[i], 9) # req[p].idempotencyKey

C12_OnlySuccessAppends == [][C12_FrameStep]_vars

\* C13: when the PAYMENT_RECORD entry is not written by logAction after the
\* append, the request still returns the success response with the id of
\* the appended row, the row stays in the ledger and the lock is released.
C13_AuditFailStep ==
  \A p \in Procs :
    (/\ pc[p] = "log" /\ pc'[p] = "done"
     /\ req[p].paymentDate # BadDate
     /\ AuditLog' = AuditLog) =>
      /\ resp'[p] = createSuccessResponse(newId[p], MsgRecorded, FALSE)
      /\ Payments' = Payments
      /\ \E i \in Rows : PaymentId(i) = newId[p] /\ KeyOf(i) = req[p].idempotencyKey
      /\ lock = p /\ lock' = 0

C13_AuditFailureKeepsCommit == [][C13_AuditFailStep]_vars

\* a request was answered with success and its row is in the ledger while
\* the audit log holds no entry for it
C13_Witness ==
  \E p \in Procs :
    /\ pc[p] = "done" /\ resp[p].msg = MsgRecorded
    /\ lock = 0
    /\ \E i \in Rows : PaymentId(i) = resp[p].paymentId /\ KeyOf(i) = req[p].idempotencyKey
    /\ \A k \in 1..Len(AuditLog) : AuditLog[k] # resp[p].paymentId

\* C16: every row entered through a Treasurer session belongs to a student
\* of the section of that session, and a Treasurer request for a student of
\* another section never gets past the eligibility check: it is rejected
\* there with the section error and leaves the ledger as it was.  Admin
\* requests are not restricted.
SectionOfStudent(studentId) ==
  LET s == CHOOSE s \in 1..Len(Students) : Col(Students[s], 0).s = studentId
  IN Col(Students[s], 3).s

OutOfSection(p) ==
  /\ session[p].role = "Treasurer"
  /\ \E s \in 1..Len(Students) : Col(Students[s], 0).s = req[p].studentId
  /\ SectionOfStudent(req[p].studentId) # session[p].section

C16_TreasurerRowsInv ==
  /\ \A i \in Rows :
       Col(Payments[i], 5) = TreasurerSession.user =>
         /\ SectionOfStudent(StudentOf(i)) = TreasurerSession.section
         /\ Col(Payments[i], 2) = TreasurerSession.section
  /\ \A p \in Procs : OutOfSection(p) => pc[p] \notin {"recheck", "commit", "log"}

C16_RejectStep ==
  \A p \in Procs :
    /\ (OutOfSection(p) /\ pc[p] = "elig" /\ pc'[p] # "elig") =>
         /\ pc'[p] = "done"
         /\ resp'[p].status = "error"
         /\ resp'[p].msg \in {MsgNotInSection, MsgUnexpected}
         /\ Payments' = Payments
    /\ (session[p].role = "Admin" /\ pc[p] = "elig" /\ pc'[p] = "done") =>
         resp'[p].msg # MsgNotInSection

C16_TreasurerOwnSection == [](C16_TreasurerRowsInv) /\ [][C16_RejectStep]_vars

\* the treasurer of SEC1 has entered a payment for ST1 and was then rejected
\* for ST2
C16_Witness ==
  \E p \in Procs :
    /\ OutOfSection(p) /\ pc[p] = "done" /\ resp[p].msg = MsgNotInSection
    /\ req[p].studentId = "ST2"
    /\ \E i \in Rows : Col(Payments[i], 5) = session[p].user /\ StudentOf(i) = "ST1"

\* C17: a request that misses studentId, amount or physicalReceiptNo is
\* answered with the input error at the entry of the handler: it never
\* reaches the key check, the receipt check or the lock acquisition, which
\* are the first reads of the ledger and the first use of the lock, and it
\* never holds the lock.
MissingField(r) == r.studentId = "" \/ r.amount = 0 \/ r.physicalReceiptNo = ""

C17_InputErrorInv ==
  \A p \in Procs :
    (pc[p] # "idle" /\ MissingField(req[p])) =>
      /\ pc[p] = "done"
      /\ resp[p] = createErrorResponse(MsgRequired, NoPayment)
      /\ lock # p
      /\ attempt[p] = 0 /\ sleeps[p] = <<>>

C17_InputErrorStep ==
  \A p \in Procs :
    (pc[p] # pc'[p] /\ MissingField(req'[p])) =>
      /\ Payments' = Payments /\ AuditLog' = AuditLog /\ lock' = lock

ReceiptOnlyOnVoided(p) ==
  /\ \E i \in Rows : NormReceipt(ReceiptOf(i)) = NormReceipt(req[p].physicalReceiptNo)
  /\ \A i \in Rows :
       NormReceipt(ReceiptOf(i)) = NormReceipt(req[p].physicalReceiptNo) => Voided(i)

C18_ReuseStep ==
  \A p \in Procs :
    /\ (pc[p] = "preReceipt" /\ pc'[p] # "preReceipt" /\ ReceiptOnlyOnVoided(p)) =>
         pc'[p] = "acquire"
    /\ (/\ pc[p] = "recheck" /\ pc'[p] # "recheck" /\ ReceiptOnlyOnVoided(p)
        /\ \A i \in Rows : KeyOf(i) # req[p].idempotencyKey
        /\ \A i \in Rows : ~SameDayRow(p, i)) =>
         \/ pc'[p] = "commit"
         \/ pc'[p] = "done" /\ resp'[p].msg = MsgUnexpected

C18_VoidedReceiptReusable == [][C18_ReuseStep]_vars

\* the ledger holds a voided payment and a later non-voided payment with the
\* same receipt number, entered by a request that was answered with success
C18_Witness ==
  \E p \in Procs :
    /\ pc[p] = "done" /\ resp[p].msg = MsgRecorded
    /\ \E i, j \in Rows :
         /\ i < j /\ Voided(i) /\ ~Voided(j)
         /\ NormReceipt(ReceiptOf(i)) = NormReceipt(ReceiptOf(j))
         /\ PaymentId(j) = resp[p].paymentId /\ KeyOf(j) = req[p].idempotencyKey
         /\ KeyOf(i) # KeyOf(j)

\* C14: validatePaymentAmount answers valid exactly for the amounts from 5 to
\* 10000 that are multiples of 5, and for every other amount invalid with the
\* reason of the rule it breaks: zero and negative amounts the
\* greater-than-zero reason, amounts below 5 the minimum reason, amounts above
\* 10000 the maximum reason, the other amounts the multiple reason.
ExpectedVerdict(a) ==
  IF a <= 0 THEN [valid |-> FALSE, msg |-> "Amount must be greater than zero"]
  ELSE IF a < PAYMENT_AMOUNT_MIN THEN [valid |-> FALSE, msg |-> "Minimum amount"]
  ELSE IF a > MAX_PAYMENT_AMOUNT THEN [valid |-> FALSE, msg |-> "Maximum amount"]
  ELSE IF a % PAYMENT_AMOUNT_MULTIPLE # 0 THEN [valid |-> FALSE, msg |-> "Amount must be a multiple"]
  ELSE [valid |-> TRUE, msg |-> "Valid amount"]

C14_AmountVerdict ==
  serverResult # NoVerdict => serverResult = ExpectedVerdict(amountArg)

\* C15: validateStudentPaymentEligibility answers valid exactly when the
\* student exists, has the status Active, is in the section of the caller if
\* the caller is a Treasurer, and the student's non-voided payments plus the
\* amount stay within the student's expected amount (the bound included).
StudentIndex(studentId) ==
  FirstMatch({n \in 1..Len(Students) : Col(Students[n], 0).s = studentId})

ShouldBeEligible(p) ==
  LET i == StudentIndex(req[p].studentId)
  IN /\ i # 0
     /\ Col(Students[i], 4).s = "Active"
     /\ session[p].role = "Treasurer" => Col(Students[i], 3).s = session[p].section
     /\ TotalPaid(Payments, req[p].studentId) + req[p].amount <= Col(Students[i], 6).n

C15_EligibleExactlyWhen ==
  \A p \in Procs :
    /\ pc[p] = "recheck" => ShouldBeEligible(p)
    /\ (pc[p] = "done" /\ resp[p].msg # MsgUnexpected) => ~ShouldBeEligible(p)

\* C19: every user has at most one active session, whatever the interleaving
\* of the login requests.
ActiveSessions(username) ==
  {j \in 1..Len(Sessions) : Col(Sessions[j], 1) = username /\ Col(Sessions[j], 8)}

C19_SingleSession ==
  \A username \in LoginNames : Cardinality(ActiveSessions(username)) <= 1

\* C20: a run of setupDatabase keeps every data row there was; and once it
\* has run, a further run changes no sheet: the headers are the expected
\* ones, the departments are not seeded again and no second admin row is
\* added.
C20_SetupInv ==
  setupRuns >= 1 =>
    /\ \A name \in SheetNames :
         /\ Headers[name].exists
         /\ CurrentHeaders(Headers[name].row, Len(sheetsToCreate(name))) = sheetsToCreate(name)
    /\ Departments # <<>>
    /\ \A i, j \in 1..Len(Departments) : i # j => Departments[i] # Departments[j]
    /\ Cardinality({i \in 1..Len(Treasurers) : ToLowerCase(Col(Treasurers[i], 2)) = "admin"}) = 1

C20_SetupStep ==
  /\ IsPrefix(Departments, Departments')
  /\ IsPrefix(Treasurers, Treasurers')
  /\ \A name \in SheetNames : Headers[name].exists => Headers'[name].exists
  /\ setupRuns >= 1 =>
       /\ Headers' = Headers
       /\ Departments' = Departments
       /\ Treasurers' = Treasurers

C20_SetupIdempotent == [](C20_SetupInv) /\ [][C20_SetupStep]_vars

\* setupDatabase has run twice, at different times, on a spreadsheet that
\* had a treasurer but neither departments nor an admin: the departments are
\* the three seeded ones and the admin row is the one of the first run
C20_Witness ==
  /\ setupRuns >= 2
  /\ now >= 2
  /\ Departments = SeedDepartments
  /\ Len(Treasurers) = 2
  /\ Col(Treasurers[1], 2) = "t1"
  /\ \E t \in 0..MaxTime : t < now /\ Treasurers[2] = DefaultAdminRow(t)

\* C21: database initialization is one-time: whatever the sequence or
\* interleaving of the initializeDatabase calls, at most one admin row is
\* appended by them, and a well-formed call received once DB_INITIALIZED is
\* set is answered 'Database is already initialized' and appends no row.
InitAdminRows ==
  {i \in 1..Len(Treasurers) : Col(Treasurers[i], 4) = "Admin"}

C21_AtMostOneInv ==
  /\ Cardinality(InitAdminRows) <= 1
  /\ Properties.DB_INITIALIZED = "true" => Cardinality(InitAdminRows) = 1

C21_FurtherCallStep ==
  \A p \in Procs :
    (/\ initCount' # initCount
     /\ <<initPc'[p], initData'[p], initResp'[p]>> # <<initPc[p], initData[p], initResp[p]>>
     /\ Properties.DB_INITIALIZED = "true"
     /\ initData'[p].adminName # "" /\ StrLen(initData'[p].adminPassword) >= 8) =>
      /\ initPc'[p] = "done"
      /\ initResp'[p] = [status |-> "error", message |-> MsgAlreadyInitialized]
      /\ Treasurers' = Treasurers

C21_InitializeOnce == [](C21_AtMostOneInv) /\ [][C21_FurtherCallStep]_vars

\* C22: a committed payment goes through pre-lock validation, lock
\* acquisition, in-lock re-validation, ledger append, audit record, lock
\* release and result, in this order: each stage is entered from the one
\* before it, the stages from the eligibility check to the audit record run
\* with the lock held by the request, the PAYMENT_RECORD entry is written
\* after the append of the row it names and in the step that ends with the
\* release and the success response, and the audit log holds no entry for a
\* payment that is not in the ledger.
C22_AuditInv ==
  /\ \A k \in 1..Len(AuditLog) : \E i \in Rows : PaymentId(i) = AuditLog[k]
  /\ \A p \in Procs : InLock(p) => lock = p

C22_OrderStep ==
  /\ \A p \in Procs :
       pc'[p] # pc[p] =>
         /\ pc'[p] = "preIdem" => pc[p] \in {"idle", "done"}
         /\ pc'[p] = "preReceipt" => pc[p] = "preIdem"
         /\ pc'[p] = "acquire" => pc[p] = "preReceipt"
         /\ pc'[p] = "elig" => pc[p] = "acquire" /\ lock = 0 /\ lock' = p
         /\ pc'[p] = "recheck" => pc[p] = "elig" /\ lock = p /\ lock' = p
         /\ pc'[p] = "commit" => pc[p] = "recheck" /\ lock = p /\ lock' = p
         /\ pc'[p] = "log" =>
              /\ pc[p] = "commit" /\ lock = p /\ lock' = p
              /\ Len(Payments') = Len(Payments) + 1
              /\ AuditLog' = AuditLog
         /\ (pc'[p] = "done" /\ resp'[p].msg = MsgRecorded) =>
              /\ pc[p] = "log" /\ lock = p /\ lock' = 0
              /\ Payments' = Payments
  /\ AuditLog' # AuditLog =>
       \E p \in Procs :
         /\ pc[p] = "log" /\ pc'[p] = "done" /\ lock = p /\ lock' = 0
         /\ AuditLog' = Append(AuditLog, newId[p])
         /\ \E i \in Rows : PaymentId(i) = newId[p] /\ KeyOf(i) = req[p].idempotencyKey
         /\ resp'[p] = createSuccessResponse(newId[p], MsgRecorded, FALSE)

C22_CommitOrder == [](C22_AuditInv) /\ [][C22_OrderStep]_vars

\* two payments were committed one after the other, both with their audit
\* entries in the order of the appends, and the lock is free
C22_Witness ==
  /\ Len(Payments) = 2 /\ Len(AuditLog) = 2
  /\ AuditLog[1] = PaymentId(1) /\ AuditLog[2] = PaymentId(2)
  /\ PaymentId(1) # PaymentId(2)
  /\ lock = 0
  /\ \E p \in Procs : pc[p] = "done" /\ resp[p].msg = MsgRecorded /\ resp[p].paymentId = PaymentId(2)

\* C23: the key re-check inside the lock matches exactly what
\* validateIdempotencyKey matches: a request is answered there with
\* duplicate:true exactly when a non-voided payment created within the
\* retention window carries its key, and with the id validateIdempotencyKey
\* would report; a key carried only by voided payments or by payments older
\* than the window is no match (a failing sheet call aside).
C23_RecheckStep ==
  \A p \in Procs :
    (pc[p] = "recheck" /\ pc'[p] # "recheck"
     /\ ~(pc'[p] = "done" /\ resp'[p].msg = MsgUnexpected)) =>
      LET v == validateIdempotencyKey(getDataRows(Payments), req[p].idempotencyKey, now)
      IN IF v.valid
         THEN ~resp'[p].duplicate
         ELSE /\ pc'[p] = "done"
              /\ resp'[p] = createSuccessResponse(v.existingPaymentId, MsgDuplicateInLock, TRUE)

C23_InLockKeyAsPreLock == [][C23_RecheckStep]_vars

\* C24: the system receipt numbers returned for two distinct committed
\* non-voided payments are never equal.
C24_UniqueSystemReceipt ==
  \A i, j \in 1..Len(Receipts) :
    (i # j /\ ~Voided(i) /\ ~Voided(j) /\ PaymentId(i) # PaymentId(j)) =>
      Receipts[i].receiptNo # Receipts[j].receiptNo

\* C25: no two rows of the Payments ledger carry the same payment id,
\* whatever the timing of the commits and the random suffixes drawn.
C25_UniquePaymentId ==
  \A i, j \in Rows : i # j => PaymentId(i) # PaymentId(j)

\* C26: client retries are idempotent: all attempts of one API.recordPayment
\* call carry one idempotency key and the ledger never holds two rows with
\* it; an attempt that reaches the key check when a row with the key is in
\* the ledger (the retry after an attempt that committed) appends nothing and
\* is answered with a duplicate success carrying the payment id of that row,
\* and the call returns the answer of its last attempt.
RowsOfCall == {i \in Rows : KeyOf(i) = callPayload.data.idempotencyKey}

C26_OneKeyInv ==
  /\ Cardinality(RowsOfCall) <= 1
  /\ \A p \in Procs :
       pc[p] # "idle" =>
         req[p].idempotencyKey \in {NoKey, callPayload.data.idempotencyKey}

C26_RetryStep ==
  \A p \in Procs :
    (/\ pc[p] = "preIdem" /\ pc'[p] # "preIdem"
     /\ RowsOfCall # {}
     /\ resp'[p].msg # MsgUnexpected) =>
      /\ pc'[p] = "done"
      /\ Payments' = Payments
      /\ resp'[p].status = "ok" /\ resp'[p].duplicate
      /\ \E i \in RowsOfCall : resp'[p].paymentId = PaymentId(i)

C26_ReturnStep ==
  (clientPc = "wait" /\ clientPc' = "returned") =>
    /\ callResult' = resp[attemptNo]
    /\ req[attemptNo].idempotencyKey = callPayload.data.idempotencyKey

C26_RetryIdempotent ==
  [](C26_OneKeyInv) /\ [][C26_RetryStep /\ C26_ReturnStep]_vars

\* the response of the first attempt, which committed, was lost, and the call
\* returned the duplicate answer of a later attempt with the first commit's id
C26_Witness ==
  /\ clientPc = "returned"
  /\ attemptNo >= 2
  /\ lastError = "Failed to fetch"
  /\ Len(Payments) = 1
  /\ pc[1] = "done" /\ resp[1].status = "ok" /\ ~resp[1].duplicate
  /\ callResult.status = "ok" /\ callResult.duplicate
  /\ callResult.paymentId = resp[1].paymentId
  /\ callResult.paymentId = PaymentId(1)

\* C27: API.call sends at most retryAttempts requests, and sends no further
\* request after an attempt that ended with an authentication error or with
\* an HTTP 4xx status.
C27_SentInv == sent <= retryAttempts

C27_NoRetryStep ==
  sent' > sent =>
    /\ lastError # "Authentication required"
    /\ "HTTP 4" \notin KeywordsIn(lastError)

C27_NoRetryOnAuthOr4xx == [](C27_SentInv) /\ [][C27_NoRetryStep]_vars

\* C28: the Students layout eligibility reads agrees with the one
\* handleCreateSection writes and setupDatabase declares: the value read as
\* expectedAmount is the cell under the header ExpectedAmount, the value read
\* as isActive is true exactly when the cell under Status is 'Active'; so a
\* request passes the eligibility check only for a student with the status
\* Active and a total within the stored expected amount.
HeaderCol(name, header) ==
  CHOOSE k \in 0..(Len(sheetsToCreate(name)) - 1) : sheetsToCreate(name)[k + 1] = header

StoredExpected(row) == Col(row, HeaderCol("Students", "ExpectedAmount"))
StoredStatus(row) == Col(row, HeaderCol("Students", "Status"))

SameCells(row) ==
  /\ ParseFloat(OrZero(Col(row, ExpectedAmountCol))) = StoredExpected(row)
  /\ Truthy(Col(row, IsActiveCol)) <=> (StoredStatus(row) = Str("Active"))

C28_StudentsLayoutAgrees ==
  \A p \in Procs :
    (pc[p] \in {"recheck", "done"} /\ StudentIndex(req[p].studentId) # 0) =>
      LET row == Students[StudentIndex(req[p].studentId)]
      IN /\ SameCells(row)
         /\ pc[p] = "recheck" =>
              /\ StoredStatus(row) = Str("Active")
              /\ elig[p].newTotal <= StoredExpected(row).n

\* C29: a printSummary call that returned success has left the PrintJobs
\* row it appended in the status DONE; and a call is refused with 'another
\* user is printing' only while a job of its section is IN_PROGRESS and
\* younger than the print lock timeout.
OwnJobRows(p) ==
  {i \in 1..Len(PrintJobs) :
     /\ Col(PrintJobs[i], 0) = printResp[p].jobId
     /\ Col(PrintJobs[i], 1) = printArg[p].sectionId
     /\ Col(PrintJobs[i], 2) = printArg[p].user}

C29_DoneInv ==
  \A p \in Procs :
    (printPc[p] = "done" /\ printResp[p].status = "ok") =>
      /\ OwnJobRows(p) # {}
      /\ \A i \in OwnJobRows(p) : Col(PrintJobs[i], 4) = "DONE"

C29_RefusedStep ==
  \A p \in Procs :
    (printResp[p].msg # MsgPrinting /\ printResp'[p].msg = MsgPrinting) =>
      \E i \in 1..Len(PrintJobs) :
        /\ Col(PrintJobs[i], 1) = printArg[p].sectionId
        /\ Col(PrintJobs[i], 4) = "IN_PROGRESS"
        /\ Col(PrintJobs[i], 5) > now - PrintLockTimeoutTicks

C29_PrintJobDone == [](C29_DoneInv) /\ [][C29_RefusedStep]_vars

\* C30: duplicate detection looks at the idempotency key alone: a request
\* that reaches a key check (before the lock or inside it) while a non-voided
\* payment inside the retention window carries its key appends no row and is
\* answered with duplicate:true and the id of that payment, whatever its
\* student, amount and receipt number are.
C30_KeyStep ==
  \A p \in Procs :
    (/\ pc[p] \in {"preIdem", "recheck"} /\ pc'[p] # pc[p]
     /\ resp'[p].msg # MsgUnexpected) =>
      \A i \in Rows :
        (~Voided(i) /\ InWindow(i) /\ KeyOf(i) = req[p].idempotencyKey) =>
          /\ pc'[p] = "done"
          /\ resp'[p].status = "ok"
          /\ resp'[p].duplicate
          /\ resp'[p].paymentId = PaymentId(i)
          /\ Payments' = Payments

C30_DuplicateByKeyAlone == [][C30_KeyStep]_vars

\* a request answered as a duplicate of a payment of another student and of
\* another amount
C30_Witness ==
  \E p \in Procs, i \in Rows :
    /\ pc[p] = "done" /\ resp[p].status = "ok" /\ resp[p].duplicate
    /\ resp[p].paymentId = PaymentId(i)
    /\ KeyOf(i) = req[p].idempotencyKey
    /\ ~Voided(i) /\ InWindow(i)
    /\ StudentOf(i) # req[p].studentId
    /\ AmountOf(i) # req[p].amount
    /\ Len(Payments) = 1

====
